---- MODULE Spec2Model ----
(***************************************************************************)
(* Model of the advanced-thermo repository.                                *)
(*                                                                         *)
(*  - hw-1/programs/property_solver.py : solve_property, the bounded       *)
(*    bisection that inverts a property lookup (SolverSpec).               *)
(*  - hw-3/fluid-separator.py : Throttle, FlashSeparator, HeatExchanger,   *)
(*    Mixer and the reference chain of __main__ (ChainSpec).               *)
(*                                                                         *)
(* Numbers.  The code computes in IEEE doubles; the model computes in      *)
(* exact integers.  Guesses live on a grid fine enough that every midpoint *)
(* the loop can form is an integer, the tolerance is a count of            *)
(* thousandths, and a vapour quality is a count of 1/XDen.                 *)
(***************************************************************************)
EXTENDS Integers, Sequences, FiniteSets, TLC

VARIABLES
    \* ---- solve_property: arguments
    target_value, min_guess, max_guess, tolerance, max_iterations,
    \* ---- the property service behind call_coolprop_cli: f(x) = fa*x + fb
    fa, fb,
    \* ---- solve_property: locals
    low, high, iteration, guess, actual_value,
    \* ---- solve_property: control, outcome and observable effects
    spc, result, exc, out, queries,
    \* ---- fluid-separator.py __main__
    cpc, m_dot, svc, valve, separator, vapor_cooler, liquid_heater, mixer,
    cexc,
    \* ---- the lookups PropsSI was asked, in order
    calls,
    \* ---- fluid-separator.py __main__, Part C
    components, total_xd, dominant, traceback,
    \* ---- the unit operations called on their own
    ucase, uin, separator2, xd,
    \* ---- counterflow-hx.py main
    hpc, m_dot_h, m_dot_c, hsvc, mu, h_h_in, h_c_in, case1, case2,
    hout, hcalls, boundary, Xdest, eta_ex, hexc,
    \* ---- coolprop_cli.py main, run by hand or by call_coolprop_cli
    kpc, via, argv, lookup, stdout, returncode, value, kexc

solverVars == <<target_value, min_guess, max_guess, tolerance, max_iterations,
                fa, fb, low, high, iteration, guess, actual_value,
                spc, result, exc, out, queries>>

chainVars == <<cpc, m_dot, svc, valve, separator, vapor_cooler, liquid_heater,
               mixer, cexc, calls, components, total_xd, dominant, traceback>>

unitVars == <<ucase, uin, separator2, xd>>

hxVars == <<hpc, m_dot_h, m_dot_c, hsvc, mu, h_h_in, h_c_in, case1, case2,
            hout, hcalls, boundary, Xdest, eta_ex, hexc>>

cliVars == <<kpc, via, argv, lookup, stdout, returncode, value, kexc>>

vars == <<solverVars, chainVars, unitVars, hxVars, cliVars>>

(***************************************************************************)
(* Bounds of the model.                                                    *)
(***************************************************************************)
\* largest max_iterations a run is given
MaxIter == 3
\* min_guess and max_guess are 0, Grid, ..., MaxK * Grid
MaxK == 2
\* a quality is x / XDen
XDen == 4
\* inlet mass flows are 0 .. MaxMdot flow units
MaxMdot == 3

Abs(x) == IF x < 0 THEN -x ELSE x

RECURSIVE Pow2(_)
Pow2(n) == IF n = 0 THEN 1 ELSE 2 * Pow2(n - 1)

\* one more halving than the loop performs (the final midpoint, line 119)
\* and one in reserve, so that every midpoint is exact
Grid == Pow2(MaxIter + 2)

\* tolerance in thousandths; the default of the signature is 1e-3
TolDen == 1000
Tolerances == {1, 250}

Guesses == {k * Grid : k \in 0..MaxK}
Slopes == {-2, -1, 0, 1, 2}
Offsets == {0, Grid}
Targets == {0, (3 * Grid) \div 4, Grid}

(***************************************************************************)
(* solve_property, hw-1/programs/property_solver.py                        *)
(***************************************************************************)

\* the value the service returns at x when the lookup succeeds
ServiceValue(x) == fa * x + fb

\* the division binding to high alone: low + high / 2.0
Midpoint_Precedence(lo, hi) == lo + hi \div 2

\* line 78 / 119: (low + high) / 2.0.  The unit is the spacing of the
\* doubles around the bracket: a sum that is odd in this unit is not a
\* double and is rounded to the neighbour whose half is even.
Midpoint(lo, hi) ==
    LET sum == lo + hi
    IN IF sum % 2 = 0 THEN sum \div 2
       ELSE IF ((sum - 1) \div 2) % 2 = 0 THEN (sum - 1) \div 2
       ELSE (sum + 1) \div 2

\* line 86 and 93: abs(actual - target) / abs(target) < tolerance, target # 0
ErrorBelow(actual, target, tol) ==
    Abs(actual - target) * TolDen < tol * Abs(target)

\* line 102 / 113: the side of the bracket that moves to the guess
MovesLow(actual, target) == actual < target

\* the first iteration taken to be number 1
FailEarly_OneBased(it) == it = 1

\* line 110: a failure in the first iteration is re-raised
FailEarly(it) == it = 0

\* one iteration too many
LoopRuns_Inclusive(it, maxit) == it <= maxit

\* line 76: for iteration in range(max_iterations)
LoopRuns(it, maxit) == it < maxit

\* the loop index returned as it is
IterationNumber_ZeroBased(it) == it

\* line 99: the iteration number that is returned and printed
IterationNumber(it) == it + 1

SolverIdle ==
    /\ low = 0 /\ high = 0 /\ iteration = 0 /\ guess = 0
    /\ actual_value = <<>>
    /\ result = <<>> /\ exc = "none" /\ out = <<>> /\ queries = 0

SolverInit ==
    /\ target_value \in Targets
    /\ min_guess \in Guesses
    /\ max_guess \in Guesses
    /\ min_guess < max_guess
    /\ tolerance \in Tolerances
    /\ max_iterations \in 1..MaxIter
    /\ fa \in Slopes
    /\ fb \in Offsets
    /\ spc = "start"
    /\ SolverIdle

solverArgs == <<target_value, min_guess, max_guess, tolerance, max_iterations,
                fa, fb>>

\* lines 67-74: the header is printed and the bracket is seeded
SolveStart ==
    /\ spc = "start"
    /\ out' = Append(out, [kind |-> "header"])
    /\ low' = min_guess
    /\ high' = max_guess
    /\ spc' = "loop"
    /\ UNCHANGED <<iteration, guess, actual_value, result, exc, queries>>
    /\ UNCHANGED solverArgs

\* the line without its iteration number
IterLine_Unnumbered(it, g, v) ==
    [kind |-> "iter", n |-> 0, guess |-> g, ok |-> TRUE, actual |-> v]

IterLine(it, g, v) ==
    [kind |-> "iter", n |-> IterationNumber(it), guess |-> g, ok |-> TRUE,
     actual |-> v]

ErrorLine(it, g, e) ==
    [kind |-> "iter", n |-> IterationNumber(it), guess |-> g, ok |-> FALSE,
     error |-> e]

\* lines 76-99: the lookup succeeds and the error is below the tolerance
IterConverged ==
    /\ spc = "loop"
    /\ LoopRuns(iteration, max_iterations)
    /\ target_value # 0
    /\ LET g == Midpoint(low, high)
           v == ServiceValue(g)
       IN /\ ErrorBelow(v, target_value, tolerance)
          /\ guess' = g
          /\ actual_value' = <<v>>
          /\ queries' = queries + 1
          /\ out' = out \o <<IterLine(iteration, g, v),
                             [kind |-> "converged", guess |-> g, actual |-> v,
                              n |-> IterationNumber(iteration)]>>
          /\ result' = <<g, v, IterationNumber(iteration)>>
          /\ spc' = "returned"
    /\ UNCHANGED <<low, high, iteration, exc>>
    /\ UNCHANGED solverArgs

\* lines 76-105: the lookup succeeds, no convergence, the bracket is updated
IterUpdate ==
    /\ spc = "loop"
    /\ LoopRuns(iteration, max_iterations)
    /\ target_value # 0
    /\ LET g == Midpoint(low, high)
           v == ServiceValue(g)
       IN /\ ~ErrorBelow(v, target_value, tolerance)
          /\ guess' = g
          /\ actual_value' = <<v>>
          /\ queries' = queries + 1
          /\ out' = Append(out, IterLine(iteration, g, v))
          /\ IF MovesLow(v, target_value)
                THEN low' = g /\ high' = high
                ELSE high' = g /\ low' = low
          /\ iteration' = iteration + 1
    /\ UNCHANGED <<spc, result, exc>>
    /\ UNCHANGED solverArgs

\* lines 107-116: the except clause.  e is the exception caught, av the
\* binding of actual_value when it was raised.
ExceptClause(g, e, av) ==
    /\ guess' = g
    /\ actual_value' = av
    /\ queries' = queries + 1
    /\ out' = Append(out, ErrorLine(iteration, g, e))
    /\ IF FailEarly(iteration)
          THEN /\ spc' = "raised"
               /\ exc' = e
               /\ UNCHANGED <<low, high, iteration>>
          ELSE IF av = <<>>
          THEN \* line 113 reads a name that was never bound
               /\ spc' = "raised"
               /\ exc' = "UnboundLocalError"
               /\ UNCHANGED <<low, high, iteration>>
          ELSE /\ IF MovesLow(av[1], target_value)
                     THEN low' = g /\ high' = high
                     ELSE high' = g /\ low' = low
               /\ iteration' = iteration + 1
               /\ UNCHANGED <<spc, exc>>
    /\ UNCHANGED result

\* lines 82-83 raise: call_coolprop_cli fails (RuntimeError, lines 41-44);
\* actual_value keeps its previous binding
IterLookupFails ==
    /\ spc = "loop"
    /\ LoopRuns(iteration, max_iterations)
    /\ ExceptClause(Midpoint(low, high), "RuntimeError", actual_value)
    /\ UNCHANGED solverArgs

\* line 86 raises: the lookup succeeded and abs(target_value) is 0.0
IterDivisionByZero ==
    /\ spc = "loop"
    /\ LoopRuns(iteration, max_iterations)
    /\ target_value = 0
    /\ LET g == Midpoint(low, high)
       IN ExceptClause(g, "ZeroDivisionError", <<ServiceValue(g)>>)
    /\ UNCHANGED solverArgs

\* lines 118-131: the loop is exhausted, the final midpoint is looked up
\* and returned
FinalReturn ==
    /\ spc = "loop"
    /\ ~LoopRuns(iteration, max_iterations)
    /\ target_value # 0
    /\ LET g == Midpoint(low, high)
           v == ServiceValue(g)
       IN /\ queries' = queries + 1
          /\ out' = Append(out, [kind |-> "nonconverged", guess |-> g,
                                 actual |-> v, n |-> max_iterations])
          /\ result' = <<g, v, max_iterations>>
          /\ spc' = "returned"
    /\ UNCHANGED <<low, high, iteration, guess, actual_value, exc>>
    /\ UNCHANGED solverArgs

\* lines 120-122 raise outside any try: the final lookup fails, or the
\* final error divides by a zero target
FinalRaises ==
    /\ spc = "loop"
    /\ ~LoopRuns(iteration, max_iterations)
    /\ \E e \in {"RuntimeError", "ZeroDivisionError"} :
          /\ e = "ZeroDivisionError" => target_value = 0
          /\ exc' = e
    /\ queries' = queries + 1
    /\ spc' = "raised"
    /\ UNCHANGED <<low, high, iteration, guess, actual_value, result, out>>
    /\ UNCHANGED solverArgs

(***************************************************************************)
(* The unit operations, hw-3/fluid-separator.py                            *)
(*                                                                         *)
(* A mass flow is a count of 1/XDen flow units and an inlet flow is a      *)
(* whole number of units, so that x_in * m_dot is exact.  A quality is its *)
(* numerator over XDen.  PropsSI is an external service: a deterministic   *)
(* function of its arguments, chosen by svc, that raises on the inputs     *)
(* svc.bad names.                                                          *)
(***************************************************************************)
\* lines 156-160 and 172, 174: the operating point of __main__
T1 == 330
P1 == 2500000
P2 == 650000
TCooler == 305
THeater == 345

Flows == {i * XDen : i \in 0..MaxMdot}
\* PropsSI('Q', ...) gives -1 outside the two-phase region
Qualities == {-XDen} \cup 0..XDen
BadInputs == {"none", "TP", "HP", "T_HP", "PQ", "TCooler", "THeater"}

NotBuilt == [built |-> FALSE]

\* coolprop_cli.py is not running
CliIdle ==
    /\ kpc = "idle" /\ via = "none"
    /\ argv = [argc |-> 0, in1 |-> FALSE, in2 |-> FALSE, backend |-> FALSE]
    /\ lookup = <<>> /\ stdout = <<>> /\ returncode = -1
    /\ value = <<>> /\ kexc = "none"

\* counterflow-hx.py is not running
HxIdle ==
    /\ hpc = "idle" /\ m_dot_h = 0 /\ m_dot_c = 0
    /\ hsvc = [ch |-> 1, cc |-> 1, failH |-> FALSE, failC |-> FALSE,
               bad |-> "none"]
    /\ mu = [num |-> 0, den |-> 1]
    /\ h_h_in = [num |-> 0, den |-> 1] /\ h_c_in = [num |-> 0, den |-> 1]
    /\ case1 = NotBuilt /\ case2 = NotBuilt /\ boundary = NotBuilt
    /\ hout = <<>> /\ hcalls = <<>> /\ Xdest = <<>> /\ eta_ex = <<>>
    /\ hexc = "none"

\* CoolProp raises ValueError for a state it cannot resolve
PropsSIRaises(prop, k1, v1, k2, v2) ==
    \/ svc.bad = "TP" /\ k1 = "T" /\ k2 = "P" /\ v1 = T1
    \/ svc.bad = "HP" /\ k1 = "H" /\ k2 = "P"
    \/ svc.bad = "T_HP" /\ prop = "T" /\ k1 = "H" /\ k2 = "P"
    \/ svc.bad = "PQ" /\ k1 = "P" /\ k2 = "Q"
    \/ k2 = "Q" /\ (v2 < 0 \/ v2 > XDen)
    \/ svc.bad = "TCooler" /\ k1 = "T" /\ v1 = TCooler
    \/ svc.bad = "THeater" /\ k1 = "T" /\ v1 = THeater

PropCode(prop) ==
    CASE prop = "H" -> 1 [] prop = "S" -> 2 [] prop = "T" -> 3 [] OTHER -> 0

PropsSI(prop, k1, v1, k2, v2) ==
    IF prop = "Q" THEN svc.q
    ELSE ((PropCode(prop) * (v1 + svc.k)) + 3 * v2) % 7

\* one call of PropsSI
Lookup(prop, k1, v1, k2, v2) ==
    [prop |-> prop, k1 |-> k1, v1 |-> v1, k2 |-> k2, v2 |-> v2]

LookupRaises(c) == PropsSIRaises(c.prop, c.k1, c.v1, c.k2, c.v2)

AnyRaises(cs) == \E i \in 1..Len(cs) : LookupRaises(cs[i])

\* every lookup of the block made, a failure notwithstanding
Asked_All(cs) == cs

\* the calls that are made when cs is the sequence a block of code asks:
\* all of them, or those up to the first that raises
Asked(cs) ==
    IF AnyRaises(cs)
       THEN SubSeq(cs, 1,
                   CHOOSE i \in 1..Len(cs) :
                      /\ LookupRaises(cs[i])
                      /\ \A j \in 1..(i - 1) : ~LookupRaises(cs[j]))
       ELSE cs

\* lines 24-30: the lookups of Throttle.__init__, in order
ThrottleLookups(T_in, P_in, P_out) ==
    LET h == PropsSI("H", "T", T_in, "P", P_in)
    IN <<Lookup("H", "T", T_in, "P", P_in),
         Lookup("S", "T", T_in, "P", P_in),
         Lookup("S", "H", h, "P", P_out),
         Lookup("Q", "H", h, "P", P_out)>>

\* the outlet enthalpy looked up again, at the outlet pressure
Throttle_AtOutletPressure(T_in, P_in, P_out, m) ==
    LET h == PropsSI("H", "T", T_in, "P", P_in)
        ho == PropsSI("H", "T", T_in, "P", P_out)
    IN [built |-> TRUE, T_in |-> T_in, P_in |-> P_in, P_out |-> P_out,
        m_dot |-> m,
        h_in |-> h,
        s_in |-> PropsSI("S", "T", T_in, "P", P_in),
        h_out |-> ho,
        s_out |-> PropsSI("S", "H", ho, "P", P_out),
        x_out |-> PropsSI("Q", "H", ho, "P", P_out)]

\* lines 16-30: Throttle.__init__
ThrottleRaises(T_in, P_in, P_out) ==
    \/ PropsSIRaises("H", "T", T_in, "P", P_in)
    \/ PropsSIRaises("S", "H", PropsSI("H", "T", T_in, "P", P_in), "P", P_out)

Throttle(T_in, P_in, P_out, m) ==
    LET h == PropsSI("H", "T", T_in, "P", P_in)
    IN [built |-> TRUE, T_in |-> T_in, P_in |-> P_in, P_out |-> P_out,
        m_dot |-> m,
        h_in |-> h,
        s_in |-> PropsSI("S", "T", T_in, "P", P_in),
        h_out |-> h,
        s_out |-> PropsSI("S", "H", h, "P", P_out),
        x_out |-> PropsSI("Q", "H", h, "P", P_out)]

\* the vapour flow of a quality held at zero from below
FlashVapFlow_Clamped(x_in, m) ==
    IF x_in < 0 THEN 0 ELSE (x_in * m) \div XDen

\* line 56: self.m_dot_vap = x_in * m_dot
FlashVapFlow(x_in, m) == (x_in * m) \div XDen

\* the liquid fraction taken of the vapour flow
FlashLiqFlow_OfVapour(x_in, m) ==
    ((XDen - x_in) * FlashVapFlow(x_in, m)) \div XDen

\* line 57: self.m_dot_liq = (1 - x_in) * m_dot
FlashLiqFlow(x_in, m) == ((XDen - x_in) * m) \div XDen

\* lines 60-67: the lookups of FlashSeparator.__init__, in order; Q = 1 is
\* the quality XDen / XDen
FlashSeparatorLookups(P) ==
    <<Lookup("H", "P", P, "Q", XDen), Lookup("S", "P", P, "Q", XDen),
      Lookup("T", "P", P, "Q", XDen),
      Lookup("H", "P", P, "Q", 0), Lookup("S", "P", P, "Q", 0),
      Lookup("T", "P", P, "Q", 0)>>

\* lines 46-67: FlashSeparator.__init__; s_in is <<>> for None
FlashSeparatorRaises(P) == PropsSIRaises("H", "P", P, "Q", XDen)

FlashSeparator(P, x_in, m, s_in) ==
    [built |-> TRUE, P |-> P, x_in |-> x_in, m_dot |-> m, s_in |-> s_in,
     m_dot_vap |-> FlashVapFlow(x_in, m),
     m_dot_liq |-> FlashLiqFlow(x_in, m),
     h_vap |-> PropsSI("H", "P", P, "Q", XDen),
     s_vap |-> PropsSI("S", "P", P, "Q", XDen),
     T_vap |-> PropsSI("T", "P", P, "Q", XDen),
     h_liq |-> PropsSI("H", "P", P, "Q", 0),
     s_liq |-> PropsSI("S", "P", P, "Q", 0),
     T_liq |-> PropsSI("T", "P", P, "Q", 0)]

\* lines 110-111: the lookups of HeatExchanger.__init__, in order
HeatExchangerLookups(P, T_out) ==
    <<Lookup("H", "T", T_out, "P", P), Lookup("S", "T", T_out, "P", P)>>

\* lines 99-114: HeatExchanger.__init__
HeatExchangerRaises(P, T_out) == PropsSIRaises("H", "T", T_out, "P", P)

HeatExchanger(h_in, s_in, P, T_out, m) ==
    LET h == PropsSI("H", "T", T_out, "P", P)
    IN [built |-> TRUE, P |-> P, m_dot |-> m, h_in |-> h_in, s_in |-> s_in,
        T_out |-> T_out,
        h_out |-> h,
        s_out |-> PropsSI("S", "T", T_out, "P", P),
        q_dot |-> m * (h - h_in)]

\* line 140: self.m_dot_out = m_dot_1 + m_dot_2
MixerOutFlow(m1, m2) == m1 + m2

\* the plain mean of the two inlet enthalpies
MixerEnthalpy_Unweighted(h_1, m1, h_2, m2) ==
    [num |-> h_1 + h_2, den |-> 2]

\* line 143: h_out is the quotient num / den; the service is asked at its
\* integer part
MixerEnthalpy(h_1, m1, h_2, m2) ==
    [num |-> m1 * h_1 + m2 * h_2, den |-> MixerOutFlow(m1, m2)]

\* lines 132-147: Mixer.__init__; line 143 divides by m_dot_out
MixerDividesByZero(m1, m2) == MixerOutFlow(m1, m2) = 0

\* lines 146-147: the lookups of Mixer.__init__, in order
MixerLookups(h_1, m1, h_2, m2, P) ==
    LET h == MixerEnthalpy(h_1, m1, h_2, m2)
    IN <<Lookup("T", "H", h.num \div h.den, "P", P),
         Lookup("S", "H", h.num \div h.den, "P", P)>>

MixerRaises(h_1, m1, h_2, m2, P) ==
    LET h == MixerEnthalpy(h_1, m1, h_2, m2)
    IN PropsSIRaises("T", "H", h.num \div h.den, "P", P)

Mixer(h_1, s_1, m1, h_2, s_2, m2, P) ==
    LET h == MixerEnthalpy(h_1, m1, h_2, m2)
        hk == h.num \div h.den
    IN [built |-> TRUE, P |-> P,
        h_1 |-> h_1, s_1 |-> s_1, m_dot_1 |-> m1,
        h_2 |-> h_2, s_2 |-> s_2, m_dot_2 |-> m2,
        m_dot_out |-> MixerOutFlow(m1, m2),
        h_out |-> h,
        T_out |-> PropsSI("T", "H", hk, "P", P),
        s_out |-> PropsSI("S", "H", hk, "P", P)]

(***************************************************************************)
(* exergy_destruction of the four unit operations.  A result is the exact  *)
(* quotient num / den with den > 0; the code holds its rounding in a       *)
(* double.                                                                 *)
(***************************************************************************)
\* __main__, line 190
T0Main == 300
\* __main__, line 195
TBoundaryHeater == 450

RECURSIVE GCD(_, _)
GCD(a, b) == IF b = 0 THEN a ELSE GCD(b, a % b)

\* n / d in lowest terms with a positive denominator, for d # 0
Rat(n, d) ==
    LET g == GCD(Abs(n), Abs(d))
        sgn == IF d < 0 THEN -1 ELSE 1
    IN [num |-> (sgn * n) \div g, den |-> Abs(d) \div g]

RatAdd(a, b) == Rat(a.num * b.den + b.num * a.den, a.den * b.den)

RatLess(a, b) == a.num * b.den < b.num * a.den

RatEq(a, b) == a.num * b.den = b.num * a.den

\* the entropy difference taken the other way round
ThrottleExergy_Reversed(o, T0) == Rat(T0 * (o.m_dot * (o.s_in - o.s_out)), 1)

\* lines 32-35: Throttle.exergy_destruction
ThrottleExergy(o, T0) == Rat(T0 * (o.m_dot * (o.s_out - o.s_in)), 1)

\* the inlet entropy looked up from the quality directly
FlashInletEntropy_FromQuality(o) ==
    IF o.s_in = <<>>
       THEN PropsSI("S", "P", o.P, "Q", o.x_in)
       ELSE o.s_in[1]

\* lines 71-74: the inlet entropy FlashSeparator.exergy_destruction uses,
\* and the lookups it makes to get it
FlashInletLookups(o) ==
    IF o.s_in = <<>>
       THEN LET h_mix == PropsSI("H", "P", o.P, "Q", o.x_in)
            IN <<Lookup("H", "P", o.P, "Q", o.x_in),
                 Lookup("S", "H", h_mix, "P", o.P)>>
       ELSE <<>>

FlashInletEntropy(o) ==
    IF o.s_in = <<>>
       THEN PropsSI("S", "H", PropsSI("H", "P", o.P, "Q", o.x_in), "P", o.P)
       ELSE o.s_in[1]

\* the assignment landing on an outlet field
FlashAfterExergy_OnOutlet(o) == [o EXCEPT !.s_vap = FlashInletEntropy(o)]

\* line 74: self.s_in is assigned when it was None
FlashAfterExergy(o) == [o EXCEPT !.s_in = <<FlashInletEntropy(o)>>]

\* lines 75-76: FlashSeparator.exergy_destruction
FlashExergy(o, T0) ==
    Rat(T0 * ((o.m_dot_vap * o.s_vap + o.m_dot_liq * o.s_liq)
              - o.m_dot * FlashInletEntropy(o)), 1)

\* the default taken to be the heater's reservoir
BoundaryTemperature_Reservoir(T0, Tb) ==
    IF Tb = <<>> THEN TBoundaryHeater ELSE Tb[1]

\* lines 94-95: T_boundary defaults to T0; Tb is <<>> for None
BoundaryTemperature(T0, Tb) == IF Tb = <<>> THEN T0 ELSE Tb[1]

\* lines 96-97: HeatExchanger.exergy_destruction, for a boundary
\* temperature # 0:  T0 * (m_dot*(s_out - s_in) - q_dot / T_boundary)
HeatExchangerExergy(o, T0, Tb) ==
    LET tb == BoundaryTemperature(T0, Tb)
    IN Rat(T0 * (o.m_dot * (o.s_out - o.s_in) * tb - o.q_dot), tb)

\* lines 126-130: Mixer.exergy_destruction
MixerExergy(o, T0) ==
    Rat(T0 * (o.m_dot_out * o.s_out - o.m_dot_1 * o.s_1
              - o.m_dot_2 * o.s_2), 1)

(***************************************************************************)
(* __main__ of fluid-separator.py, lines 155-204: the chain is built in    *)
(* program order; an exception of a constructor is caught nowhere and      *)
(* ends the script with the interpreter's traceback, which names the line  *)
(* of __main__ that was executing.                                         *)
(***************************************************************************)
ComponentNames ==
    <<"Throttle", "Flash Separator", "Vapor Cooler", "Liquid Heater", "Mixer">>

ChainObjectsIdle ==
    /\ valve = NotBuilt /\ separator = NotBuilt /\ vapor_cooler = NotBuilt
    /\ liquid_heater = NotBuilt /\ mixer = NotBuilt
    /\ cexc = "none" /\ calls = <<>>
    /\ components = <<>> /\ total_xd = Rat(0, 1) /\ dominant = ""
    /\ traceback = 0

ChainIdle ==
    /\ cpc = "idle" /\ m_dot = 0 /\ svc = [q |-> 0, k |-> 0, bad |-> "none"]
    /\ ChainObjectsIdle

UnitIdle ==
    /\ ucase = "none" /\ uin = <<>> /\ separator2 = NotBuilt /\ xd = <<>>

ChainInit ==
    /\ cpc = "start"
    /\ m_dot \in Flows
    /\ svc \in [q : Qualities, k : 0..1, bad : BadInputs]
    /\ ChainObjectsIdle

\* the uncaught exception e leaves the statement at `line` of __main__
Crash(e, line) == cpc' = "crashed" /\ cexc' = e /\ traceback' = line

partC == <<components, total_xd, dominant>>

\* line 163
MakeValve ==
    /\ cpc = "start"
    /\ calls' = calls \o Asked(ThrottleLookups(T1, P1, P2))
    /\ IF ThrottleRaises(T1, P1, P2)
          THEN Crash("ValueError", 163) /\ UNCHANGED valve
          ELSE /\ valve' = Throttle(T1, P1, P2, m_dot)
               /\ cpc' = "valve"
               /\ UNCHANGED <<cexc, traceback>>
    /\ UNCHANGED <<m_dot, svc, separator, vapor_cooler, liquid_heater, mixer>>
    /\ UNCHANGED partC

\* line 164
MakeSeparator ==
    /\ cpc = "valve"
    /\ calls' = calls \o Asked(FlashSeparatorLookups(P2))
    /\ IF FlashSeparatorRaises(P2)
          THEN Crash("ValueError", 164) /\ UNCHANGED separator
          ELSE /\ separator' =
                      FlashSeparator(P2, valve.x_out, m_dot, <<valve.s_out>>)
               /\ cpc' = "separator"
               /\ UNCHANGED <<cexc, traceback>>
    /\ UNCHANGED <<m_dot, svc, valve, vapor_cooler, liquid_heater, mixer>>
    /\ UNCHANGED partC

\* lines 171-172
MakeVaporCooler ==
    /\ cpc = "separator"
    /\ calls' = calls \o Asked(HeatExchangerLookups(P2, TCooler))
    /\ IF HeatExchangerRaises(P2, TCooler)
          THEN Crash("ValueError", 171) /\ UNCHANGED vapor_cooler
          ELSE /\ vapor_cooler' =
                      HeatExchanger(separator.h_vap, separator.s_vap, P2,
                                    TCooler, separator.m_dot_vap)
               /\ cpc' = "vapor_cooler"
               /\ UNCHANGED <<cexc, traceback>>
    /\ UNCHANGED <<m_dot, svc, valve, separator, liquid_heater, mixer>>
    /\ UNCHANGED partC

\* the liquid heater fed from the vapour outlet of the separator
MakeLiquidHeater_FromVapour ==
    /\ cpc = "vapor_cooler"
    /\ calls' = calls \o Asked(HeatExchangerLookups(P2, THeater))
    /\ IF HeatExchangerRaises(P2, THeater)
          THEN Crash("ValueError", 173) /\ UNCHANGED liquid_heater
          ELSE /\ liquid_heater' =
                      HeatExchanger(separator.h_vap, separator.s_vap, P2,
                                    THeater, separator.m_dot_vap)
               /\ cpc' = "liquid_heater"
               /\ UNCHANGED <<cexc, traceback>>
    /\ UNCHANGED <<m_dot, svc, valve, separator, vapor_cooler, mixer>>
    /\ UNCHANGED partC

\* lines 173-174
MakeLiquidHeater ==
    /\ cpc = "vapor_cooler"
    /\ calls' = calls \o Asked(HeatExchangerLookups(P2, THeater))
    /\ IF HeatExchangerRaises(P2, THeater)
          THEN Crash("ValueError", 173) /\ UNCHANGED liquid_heater
          ELSE /\ liquid_heater' =
                      HeatExchanger(separator.h_liq, separator.s_liq, P2,
                                    THeater, separator.m_dot_liq)
               /\ cpc' = "liquid_heater"
               /\ UNCHANGED <<cexc, traceback>>
    /\ UNCHANGED <<m_dot, svc, valve, separator, vapor_cooler, mixer>>
    /\ UNCHANGED partC

\* lines 181-184
MakeMixer ==
    /\ cpc = "liquid_heater"
    /\ LET h_1 == vapor_cooler.h_out
           s_1 == vapor_cooler.s_out
           m1 == separator.m_dot_vap
           h_2 == liquid_heater.h_out
           s_2 == liquid_heater.s_out
           m2 == separator.m_dot_liq
       IN IF MixerDividesByZero(m1, m2)
             THEN Crash("ZeroDivisionError", 181) /\ UNCHANGED <<mixer, calls>>
          ELSE IF MixerRaises(h_1, m1, h_2, m2, P2)
             THEN /\ Crash("ValueError", 181)
                  /\ calls' = calls \o Asked(MixerLookups(h_1, m1, h_2, m2, P2))
                  /\ UNCHANGED mixer
          ELSE /\ mixer' = Mixer(h_1, s_1, m1, h_2, s_2, m2, P2)
               /\ calls' = calls \o Asked(MixerLookups(h_1, m1, h_2, m2, P2))
               /\ cpc' = "mixer"
               /\ UNCHANGED <<cexc, traceback>>
    /\ UNCHANGED <<m_dot, svc, valve, separator, vapor_cooler, liquid_heater>>
    /\ UNCHANGED partC

\* lines 191-197: the dict of the five exergy destructions, in this order
ComponentExergies ==
    <<ThrottleExergy(valve, T0Main),
      FlashExergy(separator, T0Main),
      HeatExchangerExergy(vapor_cooler, T0Main, <<T0Main>>),
      HeatExchangerExergy(liquid_heater, T0Main, <<TBoundaryHeater>>),
      MixerExergy(mixer, T0Main)>>

\* lines 198-201: total_xd = 0.0, then += each value in dict order
RECURSIVE SumExergies(_, _)
SumExergies(xs, n) ==
    IF n = 0 THEN Rat(0, 1) ELSE RatAdd(SumExergies(xs, n - 1), xs[n])

\* the key of the smallest value
Dominant_Smallest(xs) ==
    ComponentNames[
        CHOOSE i \in 1..Len(xs) : \A j \in 1..Len(xs) : ~RatLess(xs[j], xs[i])]

\* line 203: max(components, key=components.get) is the first key, in dict
\* order, whose value no other value exceeds
Dominant(xs) ==
    ComponentNames[
        CHOOSE i \in 1..Len(xs) :
            /\ \A j \in 1..Len(xs) : ~RatLess(xs[i], xs[j])
            /\ \A j \in 1..(i - 1) : RatLess(xs[j], xs[i])]

\* lines 188-204: Part C
ComputeExergy ==
    /\ cpc = "mixer"
    /\ calls' = calls \o Asked(FlashInletLookups(separator))
    /\ IF AnyRaises(FlashInletLookups(separator))
          THEN /\ Crash("ValueError", 193)
               /\ UNCHANGED <<separator, components, total_xd, dominant>>
          ELSE /\ separator' = FlashAfterExergy(separator)
               /\ components' = ComponentExergies
               /\ total_xd' = SumExergies(ComponentExergies, 5)
               /\ dominant' = Dominant(ComponentExergies)
               /\ cpc' = "done"
               /\ UNCHANGED <<cexc, traceback>>
    /\ UNCHANGED <<m_dot, svc, valve, vapor_cooler, liquid_heater, mixer>>

ChainNext ==
    \/ MakeValve /\ UNCHANGED <<solverVars, unitVars, hxVars, cliVars>>
    \/ MakeSeparator /\ UNCHANGED <<solverVars, unitVars, hxVars, cliVars>>
    \/ MakeVaporCooler /\ UNCHANGED <<solverVars, unitVars, hxVars, cliVars>>
    \/ MakeLiquidHeater /\ UNCHANGED <<solverVars, unitVars, hxVars, cliVars>>
    \/ MakeMixer /\ UNCHANGED <<solverVars, unitVars, hxVars, cliVars>>
    \/ ComputeExergy /\ UNCHANGED <<solverVars, unitVars, hxVars, cliVars>>

SolverStopped ==
    /\ target_value = 0 /\ min_guess = 0 /\ max_guess = 0 /\ tolerance = 0
    /\ max_iterations = 0 /\ fa = 0 /\ fb = 0
    /\ spc = "idle"
    /\ SolverIdle

\* only the chain runs
ChainProgram == ChainInit /\ SolverStopped /\ UnitIdle /\ HxIdle /\ CliIdle

ChainSpec == ChainProgram /\ [][ChainNext]_vars

(***************************************************************************)
(* The unit operations called on their own, as a caller of the classes     *)
(* may: one object is constructed from inputs of the caller's choosing,    *)
(* its exergy_destruction is called, and a flash separator is constructed  *)
(* a second time from the same inputs.                                     *)
(***************************************************************************)
MaxExergyCalls == 2

Ambients == {-300, 0, 300}
Enthalpies == {2, 100000, 300000}
Entropies == {0, 3, 6}
UnitFlows == {0, XDen, 2 * XDen}

ThrottleInputs ==
    [T_in : {T1, 300}, P_in : {P1}, P_out : {P2, 100000}, m : UnitFlows,
     T0 : Ambients]

FlashInputs ==
    [P : {P2}, x_in : Qualities, m : UnitFlows,
     s_in : {<<>>} \cup {<<s>> : s \in Entropies}, T0 : Ambients]

HeatExchangerInputs ==
    [h_in : {2, 5}, s_in : {0, 6}, P : {P2}, T_out : {TCooler, THeater},
     m : UnitFlows, T0 : Ambients, Tb : {<<>>, <<TBoundaryHeater>>}]

MixerInputs ==
    [h_1 : Enthalpies, s_1 : {0, 3}, m1 : UnitFlows,
     h_2 : Enthalpies, s_2 : {0, 3}, m2 : UnitFlows, P : {P2}, T0 : {300}]

UnitInit ==
    /\ cpc = "unit"
    /\ m_dot = 0
    /\ svc \in [q : {0}, k : 0..1, bad : {"none", "TP", "HP", "PQ"}]
    /\ ChainObjectsIdle
    /\ separator2 = NotBuilt /\ xd = <<>>
    /\ \/ ucase = "throttle" /\ uin \in ThrottleInputs
       \/ ucase = "flash" /\ uin \in FlashInputs
       \/ ucase = "hx" /\ uin \in HeatExchangerInputs
       \/ ucase = "mixer" /\ uin \in MixerInputs

\* an exception leaves the caller
Raise(e) == cpc' = "crashed" /\ cexc' = e

unitFrame == <<m_dot, svc, ucase, uin, components, total_xd, dominant,
               traceback>>

\* Throttle(fluid, T_in, P_in, P_out, m_dot)
NewThrottle ==
    /\ cpc = "unit" /\ ucase = "throttle" /\ valve = NotBuilt
    /\ calls' = calls \o Asked(ThrottleLookups(uin.T_in, uin.P_in, uin.P_out))
    /\ IF ThrottleRaises(uin.T_in, uin.P_in, uin.P_out)
          THEN Raise("ValueError") /\ UNCHANGED valve
          ELSE /\ valve' = Throttle(uin.T_in, uin.P_in, uin.P_out, uin.m)
               /\ UNCHANGED <<cpc, cexc>>
    /\ UNCHANGED <<separator, separator2, vapor_cooler, liquid_heater, mixer,
                   xd>>
    /\ UNCHANGED unitFrame

\* FlashSeparator(fluid, P, x_in, m_dot, s_in), the first time
NewFlashSeparator ==
    /\ cpc = "unit" /\ ucase = "flash" /\ separator = NotBuilt
    /\ calls' = calls \o Asked(FlashSeparatorLookups(uin.P))
    /\ IF FlashSeparatorRaises(uin.P)
          THEN Raise("ValueError") /\ UNCHANGED separator
          ELSE /\ separator' =
                      FlashSeparator(uin.P, uin.x_in, uin.m, uin.s_in)
               /\ UNCHANGED <<cpc, cexc>>
    /\ UNCHANGED <<valve, separator2, vapor_cooler, liquid_heater, mixer, xd>>
    /\ UNCHANGED unitFrame

\* FlashSeparator(fluid, P, x_in, m_dot, s_in) with the same arguments, after
\* whatever was done with the first object
NewFlashSeparatorAgain ==
    /\ cpc = "unit" /\ ucase = "flash"
    /\ separator # NotBuilt /\ separator2 = NotBuilt
    /\ calls' = calls \o Asked(FlashSeparatorLookups(uin.P))
    /\ IF FlashSeparatorRaises(uin.P)
          THEN Raise("ValueError") /\ UNCHANGED separator2
          ELSE /\ separator2' =
                      FlashSeparator(uin.P, uin.x_in, uin.m, uin.s_in)
               /\ UNCHANGED <<cpc, cexc>>
    /\ UNCHANGED <<valve, separator, vapor_cooler, liquid_heater, mixer, xd>>
    /\ UNCHANGED unitFrame

\* HeatExchanger(fluid, h_in, s_in, P, T_out, m_dot)
NewHeatExchanger ==
    /\ cpc = "unit" /\ ucase = "hx" /\ vapor_cooler = NotBuilt
    /\ calls' = calls \o Asked(HeatExchangerLookups(uin.P, uin.T_out))
    /\ IF HeatExchangerRaises(uin.P, uin.T_out)
          THEN Raise("ValueError") /\ UNCHANGED vapor_cooler
          ELSE /\ vapor_cooler' =
                      HeatExchanger(uin.h_in, uin.s_in, uin.P, uin.T_out,
                                    uin.m)
               /\ UNCHANGED <<cpc, cexc>>
    /\ UNCHANGED <<valve, separator, separator2, liquid_heater, mixer, xd>>
    /\ UNCHANGED unitFrame

\* Mixer(fluid, h_1, s_1, m_dot_1, h_2, s_2, m_dot_2, P)
NewMixer ==
    /\ cpc = "unit" /\ ucase = "mixer" /\ mixer = NotBuilt
    /\ IF MixerDividesByZero(uin.m1, uin.m2)
          THEN Raise("ZeroDivisionError") /\ UNCHANGED <<mixer, calls>>
       ELSE /\ calls' = calls \o
                   Asked(MixerLookups(uin.h_1, uin.m1, uin.h_2, uin.m2, uin.P))
            /\ IF MixerRaises(uin.h_1, uin.m1, uin.h_2, uin.m2, uin.P)
                  THEN Raise("ValueError") /\ UNCHANGED mixer
                  ELSE /\ mixer' = Mixer(uin.h_1, uin.s_1, uin.m1,
                                         uin.h_2, uin.s_2, uin.m2, uin.P)
                       /\ UNCHANGED <<cpc, cexc>>
    /\ UNCHANGED <<valve, separator, separator2, vapor_cooler, liquid_heater,
                   xd>>
    /\ UNCHANGED unitFrame

\* valve.exergy_destruction(T0)
ThrottleExergyCall ==
    /\ cpc = "unit" /\ valve # NotBuilt /\ Len(xd) < MaxExergyCalls
    /\ xd' = Append(xd, ThrottleExergy(valve, uin.T0))
    /\ UNCHANGED <<cpc, cexc, calls, valve, separator, separator2,
                   vapor_cooler, liquid_heater, mixer>>
    /\ UNCHANGED unitFrame

\* separator.exergy_destruction(T0), on the first object
FlashExergyCall ==
    /\ cpc = "unit" /\ separator # NotBuilt /\ Len(xd) < MaxExergyCalls
    /\ calls' = calls \o Asked(FlashInletLookups(separator))
    /\ IF AnyRaises(FlashInletLookups(separator))
          THEN Raise("ValueError") /\ UNCHANGED <<separator, xd>>
          ELSE /\ separator' = FlashAfterExergy(separator)
               /\ xd' = Append(xd, FlashExergy(separator, uin.T0))
               /\ UNCHANGED <<cpc, cexc>>
    /\ UNCHANGED <<valve, separator2, vapor_cooler, liquid_heater, mixer>>
    /\ UNCHANGED unitFrame

\* hx.exergy_destruction(T0, T_boundary); line 96 divides by T_boundary
HeatExchangerExergyCall ==
    /\ cpc = "unit" /\ vapor_cooler # NotBuilt /\ Len(xd) < MaxExergyCalls
    /\ IF BoundaryTemperature(uin.T0, uin.Tb) = 0
          THEN Raise("ZeroDivisionError") /\ UNCHANGED xd
          ELSE /\ xd' = Append(xd, HeatExchangerExergy(vapor_cooler, uin.T0,
                                                       uin.Tb))
               /\ UNCHANGED <<cpc, cexc>>
    /\ UNCHANGED <<calls, valve, separator, separator2, vapor_cooler,
                   liquid_heater, mixer>>
    /\ UNCHANGED unitFrame

\* mixer.exergy_destruction(T0)
MixerExergyCall ==
    /\ cpc = "unit" /\ mixer # NotBuilt /\ Len(xd) < MaxExergyCalls
    /\ xd' = Append(xd, MixerExergy(mixer, uin.T0))
    /\ UNCHANGED <<cpc, cexc, calls, valve, separator, separator2,
                   vapor_cooler, liquid_heater, mixer>>
    /\ UNCHANGED unitFrame

UnitNext ==
    \/ NewThrottle /\ UNCHANGED <<solverVars, hxVars, cliVars>>
    \/ NewFlashSeparator /\ UNCHANGED <<solverVars, hxVars, cliVars>>
    \/ NewFlashSeparatorAgain /\ UNCHANGED <<solverVars, hxVars, cliVars>>
    \/ NewHeatExchanger /\ UNCHANGED <<solverVars, hxVars, cliVars>>
    \/ NewMixer /\ UNCHANGED <<solverVars, hxVars, cliVars>>
    \/ ThrottleExergyCall /\ UNCHANGED <<solverVars, hxVars, cliVars>>
    \/ FlashExergyCall /\ UNCHANGED <<solverVars, hxVars, cliVars>>
    \/ HeatExchangerExergyCall /\ UNCHANGED <<solverVars, hxVars, cliVars>>
    \/ MixerExergyCall /\ UNCHANGED <<solverVars, hxVars, cliVars>>

\* only the unit operations run
UnitProgram == UnitInit /\ SolverStopped /\ HxIdle /\ CliIdle

UnitSpec == UnitProgram /\ [][UnitNext]_vars

(***************************************************************************)
(* counterflow-hx.py.  A float is the exact quotient num / den; den = 0    *)
(* stands for the non-finite doubles: num > 0 is inf, num < 0 is -inf and  *)
(* num = 0 is nan.                                                         *)
(***************************************************************************)
Finite(x) == x.den # 0

Sgn(n) == IF n > 0 THEN 1 ELSE IF n < 0 THEN -1 ELSE 0

NonFinite(n) == [num |-> Sgn(n), den |-> 0]

FNeg(a) == [num |-> -a.num, den |-> a.den]

FAdd(a, b) ==
    IF Finite(a) /\ Finite(b) THEN RatAdd(a, b)
    ELSE IF Finite(b) THEN a
    ELSE IF Finite(a) THEN b
    ELSE NonFinite(IF a.num = b.num THEN a.num ELSE 0)

FSub(a, b) == FAdd(a, FNeg(b))

FMul(a, b) ==
    IF Finite(a) /\ Finite(b) THEN Rat(a.num * b.num, a.den * b.den)
    ELSE NonFinite(a.num * b.num)

\* a / b for b # 0; Python raises ZeroDivisionError for b = 0
FDiv(a, b) ==
    IF Finite(a) /\ Finite(b) THEN Rat(a.num * b.den, a.den * b.num)
    ELSE IF Finite(a) THEN Rat(0, 1)
    ELSE IF Finite(b) THEN NonFinite(a.num * b.num)
    ELSE NonFinite(0)

IsZero(a) == Finite(a) /\ a.num = 0

\* a >= b; a comparison with nan is false
FGe(a, b) ==
    IF Finite(a) /\ Finite(b) THEN ~RatLess(a, b)
    ELSE IF ~Finite(a) /\ a.num = 0 THEN FALSE
    ELSE IF ~Finite(b) /\ b.num = 0 THEN FALSE
    ELSE IF Finite(b) THEN a.num > 0
    ELSE IF Finite(a) THEN b.num < 0
    ELSE a.num >= b.num

\* largest mass flow given on the command line
MaxFlow == 2

\* lines 130-136
P_h == 12000000
T_h_in == 720
P_c == 10000000
T_c_in == 310
dTmin == 12
\* lines 245 and 249
T0Hx == 300

\* the service for the two fluids: H = c * T and S = e * T with c the
\* fluid's heat capacity in hsvc and e = 1 for CO2, 2 for Water; a lookup
\* with inputs T, P raises for the state named by hsvc.bad
HeatCapacity(fluid) == IF fluid = "CO2" THEN hsvc.ch ELSE hsvc.cc

HxRaises(prop, T, fluid) ==
    \/ hsvc.bad = "inlet" /\ prop = "H" /\ fluid = "Water" /\ T = Rat(T_c_in, 1)
    \/ hsvc.bad = "case1" /\ prop = "H" /\ fluid = "CO2"
          /\ T = Rat(T_c_in + dTmin, 1)
    \/ hsvc.bad = "case2" /\ prop = "H" /\ fluid = "Water"
          /\ T = Rat(T_h_in - dTmin, 1)
    \/ hsvc.bad = "entropy" /\ prop = "S"

HxPropsSI(prop, T, fluid) ==
    IF prop = "H" THEN FMul(Rat(HeatCapacity(fluid), 1), T)
    ELSE FMul(Rat(IF fluid = "CO2" THEN 1 ELSE 2, 1), T)

\* PropsSI('T', 'H', h, 'P', P, fluid) raises for a non-finite h and when
\* the service cannot invert for this fluid
InversionRaises(h, fluid) ==
    \/ ~Finite(h)
    \/ fluid = "CO2" /\ hsvc.failH
    \/ fluid = "Water" /\ hsvc.failC

\* lines 28-33: safe_T_from_h; <<>> is None
safe_T_from_h(h, fluid) ==
    IF InversionRaises(h, fluid) THEN <<>>
    ELSE <<FDiv(h, Rat(HeatCapacity(fluid), 1))>>

\* line 127
MassFlowRatio(mh, mc) == IF mc # 0 THEN Rat(mh, mc) ELSE NonFinite(1)

HxFlows == 0..MaxFlow

HxInit ==
    /\ hpc = "start"
    /\ m_dot_h \in HxFlows /\ m_dot_c \in HxFlows
    /\ hsvc \in [ch : {1, 2}, cc : {1, 2}, failH : BOOLEAN, failC : BOOLEAN,
                 bad : {"none", "inlet", "case1", "case2", "entropy"}]
    /\ mu = [num |-> 0, den |-> 1]
    /\ h_h_in = [num |-> 0, den |-> 1] /\ h_c_in = [num |-> 0, den |-> 1]
    /\ case1 = NotBuilt /\ case2 = NotBuilt /\ boundary = NotBuilt
    /\ hout = <<>> /\ hcalls = <<>> /\ Xdest = <<>> /\ eta_ex = <<>>
    /\ hexc = "none"

HxCrash(e) == hpc' = "crashed" /\ hexc' = e

\* lines 125-156: the mass-flow ratio and the inlet enthalpies
HxInlet ==
    /\ hpc = "start"
    /\ mu' = MassFlowRatio(m_dot_h, m_dot_c)
    /\ IF \/ HxRaises("H", Rat(T_h_in, 1), "CO2")
          \/ HxRaises("H", Rat(T_c_in, 1), "Water")
          THEN HxCrash("ValueError") /\ UNCHANGED <<h_h_in, h_c_in, hout>>
          ELSE /\ h_h_in' = HxPropsSI("H", Rat(T_h_in, 1), "CO2")
               /\ h_c_in' = HxPropsSI("H", Rat(T_c_in, 1), "Water")
               /\ hout' = hout \o <<<<0, "Given">>, <<0, "Inlet enthalpies">>,
                                  <<0, "mu">>>>
               /\ hpc' = "case1"
               /\ UNCHANGED hexc
    /\ UNCHANGED <<m_dot_h, m_dot_c, hsvc, case1, case2, hcalls, boundary,
                   Xdest, eta_ex>>

\* lines 160-167: evaluate_case(True); <<v>> is a value, <<>> is None
EvaluateCase1 ==
    LET T_h_out == Rat(T_c_in + dTmin, 1)
        h_h_out == HxPropsSI("H", T_h_out, "CO2")
        h_c_out == FAdd(h_c_in, FMul(mu, FSub(h_h_in, h_h_out)))
        T_c_out == safe_T_from_h(h_c_out, "Water")
        dT_other == FSub(Rat(T_h_in, 1),
                         IF T_c_out # <<>> THEN T_c_out[1]
                                           ELSE Rat(T_c_in, 1))
    IN [built |-> TRUE, T_h_out |-> <<T_h_out>>, h_h_out |-> <<h_h_out>>,
        h_c_out |-> <<h_c_out>>, T_c_out |-> T_c_out,
        dT_other |-> <<dT_other>>]

\* lines 168-175: evaluate_case(False)
EvaluateCase2 ==
    LET T_c_out == Rat(T_h_in - dTmin, 1)
        h_c_out == HxPropsSI("H", T_c_out, "Water")
        h_h_out == IF ~IsZero(mu)
                      THEN <<FSub(h_h_in, FDiv(FSub(h_c_out, h_c_in), mu))>>
                      ELSE <<>>
        T_h_out == IF h_h_out # <<>> THEN safe_T_from_h(h_h_out[1], "CO2")
                                     ELSE <<>>
        dT_other == IF T_h_out = <<>> THEN <<>>
                    ELSE <<FSub(T_h_out[1], Rat(T_c_in, 1))>>
    IN [built |-> TRUE, T_h_out |-> T_h_out, h_h_out |-> h_h_out,
        h_c_out |-> <<h_c_out>>, T_c_out |-> <<T_c_out>>,
        dT_other |-> dT_other]

\* line 178
CallCase1 ==
    /\ hpc = "case1"
    /\ IF HxRaises("H", Rat(T_c_in + dTmin, 1), "CO2")
          THEN HxCrash("ValueError") /\ UNCHANGED case1
          ELSE case1' = EvaluateCase1 /\ hpc' = "case2" /\ UNCHANGED hexc
    /\ UNCHANGED <<m_dot_h, m_dot_c, hsvc, mu, h_h_in, h_c_in, case2, hout,
                   hcalls, boundary, Xdest, eta_ex>>

\* line 179
CallCase2 ==
    /\ hpc = "case2"
    /\ IF HxRaises("H", Rat(T_h_in - dTmin, 1), "Water")
          THEN HxCrash("ValueError") /\ UNCHANGED case2
          ELSE case2' = EvaluateCase2 /\ hpc' = "print" /\ UNCHANGED hexc
    /\ UNCHANGED <<m_dot_h, m_dot_c, hsvc, mu, h_h_in, h_c_in, case1, hout,
                   hcalls, boundary, Xdest, eta_ex>>

\* the comparison with dTmin made strict
Label_Strict(dT) ==
    IF FGe(dT, Rat(dTmin, 1)) /\ dT # Rat(dTmin, 1) THEN "FEASIBLE"
    ELSE "INFEASIBLE"

\* lines 188 and 204: the word printed after the approach temperature
Label(dT) == IF FGe(dT, Rat(dTmin, 1)) THEN "FEASIBLE" ELSE "INFEASIBLE"

\* lines 181-194: what is printed for case 1, as <<case, text>>
Case1Lines ==
    <<<<1, "T_h,out">>, <<1, "h_h,out">>, <<1, "h_c,out">>>>
    \o (IF case1.T_c_out # <<>>
           THEN <<<<1, "T_c,out">>, <<1, Label(case1.dT_other[1])>>>>
           ELSE <<<<1, "could not invert">>>>)
    \o (IF ~IsZero(FSub(h_h_in, case1.h_h_out[1]))
           THEN <<<<1, "implied mu">>>> ELSE <<>>)

\* lines 196-211: what is printed for case 2
Case2Lines ==
    <<<<2, "T_c,out">>, <<2, "h_c,out">>>>
    \o (IF case2.h_h_out # <<>>
           THEN <<<<2, "h_h,out">>>>
                \o (IF case2.T_h_out # <<>>
                       THEN <<<<2, "T_h,out">>,
                              <<2, Label(case2.dT_other[1])>>>>
                       ELSE <<<<2, "could not invert">>>>)
                \o (IF ~IsZero(FSub(h_h_in, case2.h_h_out[1]))
                       THEN <<<<2, "implied mu">>>> ELSE <<>>)
           ELSE <<<<2, "mu was zero">>>>)

PrintCases ==
    /\ hpc = "print"
    /\ hout' = hout \o Case1Lines \o Case2Lines
    /\ hpc' = "select"
    /\ UNCHANGED <<m_dot_h, m_dot_c, hsvc, mu, h_h_in, h_c_in, case1, case2,
                   hcalls, boundary, Xdest, eta_ex, hexc>>

\* a candidate taken whatever its approach temperature
Selectable_AnyApproach(T_other, dT_other) == T_other # <<>>

\* lines 218 and 231: the condition under which a case is analysed
Selectable(T_other, dT_other) ==
    T_other # <<>> /\ FGe(dT_other[1], Rat(dTmin, 1))

\* the choice that tries case 2 before case 1
SelectedCase_Case2First ==
    IF Selectable(case2.T_h_out, case2.dT_other) THEN 2
    ELSE IF Selectable(case1.T_c_out, case1.dT_other) THEN 1
    ELSE 0

\* lines 218-241: 1 or 2 for the case analysed, 0 for none
SelectedCase ==
    IF Selectable(case1.T_c_out, case1.dT_other) THEN 1
    ELSE IF Selectable(case2.T_h_out, case2.dT_other) THEN 2
    ELSE 0

\* lines 36-75: compute_boundary_temperatures
BoundaryRaises(T_h_out, T_c_out) ==
    IF \/ HxRaises("H", Rat(T_h_in, 1), "CO2") \/ HxRaises("H", T_h_out, "CO2")
       \/ HxRaises("S", Rat(T_h_in, 1), "CO2") \/ HxRaises("S", T_h_out, "CO2")
       \/ HxRaises("H", Rat(T_c_in, 1), "Water")
       \/ HxRaises("H", T_c_out, "Water")
       \/ HxRaises("S", Rat(T_c_in, 1), "Water")
       \/ HxRaises("S", T_c_out, "Water")
       THEN "ValueError"
    ELSE IF \/ IsZero(FSub(HxPropsSI("S", Rat(T_h_in, 1), "CO2"),
                           HxPropsSI("S", T_h_out, "CO2")))
            \/ IsZero(FSub(HxPropsSI("S", T_c_out, "Water"),
                           HxPropsSI("S", Rat(T_c_in, 1), "Water")))
       THEN "ZeroDivisionError"
    ELSE "none"

compute_boundary_temperatures(T_h_out, T_c_out) ==
    LET hhi == HxPropsSI("H", Rat(T_h_in, 1), "CO2")
        hho == HxPropsSI("H", T_h_out, "CO2")
        shi == HxPropsSI("S", Rat(T_h_in, 1), "CO2")
        sho == HxPropsSI("S", T_h_out, "CO2")
        hci == HxPropsSI("H", Rat(T_c_in, 1), "Water")
        hco == HxPropsSI("H", T_c_out, "Water")
        sci == HxPropsSI("S", Rat(T_c_in, 1), "Water")
        sco == HxPropsSI("S", T_c_out, "Water")
    IN [built |-> TRUE,
        T_b_H |-> FDiv(FSub(hhi, hho), FSub(shi, sho)),
        T_b_C |-> FDiv(FSub(hco, hci), FSub(sco, sci)),
        Q_dot |-> FMul(Rat(m_dot_h, 1), FSub(hhi, hho)),
        h_h_in |-> hhi, h_h_out |-> hho, s_h_in |-> shi, s_h_out |-> sho,
        h_c_in |-> hci, h_c_out |-> hco, s_c_in |-> sci, s_c_out |-> sco]

CaseOutlets(k) ==
    IF k = 1 THEN <<case1.T_h_out[1], case1.T_c_out[1]>>
    ELSE <<case2.T_h_out[1], case2.T_c_out[1]>>

\* lines 213-241: the choice of a case and its boundary temperatures
SelectCase ==
    /\ hpc = "select"
    /\ LET k == SelectedCase
       IN IF k = 0
             THEN /\ hpc' = "analyse"
                  /\ UNCHANGED <<hcalls, boundary, h_h_in, h_c_in, hout, hexc>>
          ELSE LET T == CaseOutlets(k)
               IN /\ hcalls' = Append(hcalls,
                                 [fn |-> "compute_boundary_temperatures",
                                  case |-> k])
                  /\ IF BoundaryRaises(T[1], T[2]) # "none"
                        THEN /\ HxCrash(BoundaryRaises(T[1], T[2]))
                             /\ UNCHANGED <<boundary, h_h_in, h_c_in, hout>>
                        ELSE /\ boundary' =
                                    compute_boundary_temperatures(T[1], T[2])
                             /\ h_h_in' = boundary'.h_h_in
                             /\ h_c_in' = boundary'.h_c_in
                             /\ hout' = Append(hout,
                                               <<k, "Boundary temperatures">>)
                             /\ hpc' = "analyse"
                             /\ UNCHANGED hexc
    /\ UNCHANGED <<m_dot_h, m_dot_c, hsvc, mu, case1, case2, Xdest, eta_ex>>

\* lines 78-97: compute_exergy_destruction; line 92 divides by both
\* boundary temperatures
ExergyRaises(b) == IsZero(b.T_b_C) \/ IsZero(b.T_b_H)

compute_exergy_destruction(b) ==
    FMul(FMul(Rat(T0Hx, 1), b.Q_dot),
         FSub(FDiv(Rat(1, 1), b.T_b_C), FDiv(Rat(1, 1), b.T_b_H)))

\* lines 100-114: compute_exergetic_efficiency
compute_exergetic_efficiency(b) ==
    LET dX_c == FMul(Rat(m_dot_c, 1),
                     FSub(FSub(b.h_c_out, b.h_c_in),
                          FMul(Rat(T0Hx, 1), FSub(b.s_c_out, b.s_c_in))))
        dX_h == FMul(Rat(m_dot_h, 1),
                     FSub(FSub(b.h_h_in, b.h_h_out),
                          FMul(Rat(T0Hx, 1), FSub(b.s_h_in, b.s_h_out))))
    IN IF ~IsZero(dX_h) THEN FDiv(dX_c, dX_h) ELSE NonFinite(0)

\* lines 243-252: the exergy analysis of the case chosen, if one was
Analyse ==
    /\ hpc = "analyse"
    /\ IF boundary = NotBuilt
          THEN /\ hpc' = "done"
               /\ UNCHANGED <<hcalls, Xdest, eta_ex, hout, hexc>>
       ELSE IF ExergyRaises(boundary)
          THEN /\ HxCrash("ZeroDivisionError")
               /\ hcalls' = Append(hcalls,
                                   [fn |-> "compute_exergy_destruction",
                                    case |-> SelectedCase])
               /\ UNCHANGED <<Xdest, eta_ex, hout>>
       ELSE /\ hcalls' = hcalls \o
                   <<[fn |-> "compute_exergy_destruction",
                      case |-> SelectedCase],
                     [fn |-> "compute_exergetic_efficiency",
                      case |-> SelectedCase]>>
            /\ Xdest' = <<compute_exergy_destruction(boundary)>>
            /\ eta_ex' = <<compute_exergetic_efficiency(boundary)>>
            /\ hout' = hout \o <<<<SelectedCase, "Exergy destruction">>,
                                 <<SelectedCase, "Exergetic efficiency">>>>
            /\ hpc' = "done"
            /\ UNCHANGED hexc
    /\ UNCHANGED <<m_dot_h, m_dot_c, hsvc, mu, h_h_in, h_c_in, case1, case2,
                   boundary>>

HxNext ==
    \/ HxInlet /\ UNCHANGED <<solverVars, chainVars, unitVars, cliVars>>
    \/ CallCase1 /\ UNCHANGED <<solverVars, chainVars, unitVars, cliVars>>
    \/ CallCase2 /\ UNCHANGED <<solverVars, chainVars, unitVars, cliVars>>
    \/ PrintCases /\ UNCHANGED <<solverVars, chainVars, unitVars, cliVars>>
    \/ SelectCase /\ UNCHANGED <<solverVars, chainVars, unitVars, cliVars>>
    \/ Analyse /\ UNCHANGED <<solverVars, chainVars, unitVars, cliVars>>

\* only counterflow-hx.py runs
HxProgram == HxInit /\ SolverStopped /\ ChainIdle /\ UnitIdle /\ CliIdle

HxSpec == HxProgram /\ [][HxNext]_vars

(***************************************************************************)
(* programs/coolprop_cli.py, and call_coolprop_cli of property_solver.py   *)
(* which runs it.  A line of standard output is the sequence of its        *)
(* fields between colons, and a field is what float() makes of it after    *)
(* strip(): [float |-> <<v>>] for the number v, [float |-> <<>>] for a     *)
(* ValueError.                                                             *)
(***************************************************************************)
\* the results of a lookup are 0 .. MaxResult
MaxResult == 4

Text == [float |-> <<>>]
Num(v) == [float |-> <<v>>]

\* lines 20-26: the usage text
UsageLines ==
    <<<<Text, Text>>, <<Text, Text>>, <<Text, Text>>, <<Text, Text>>,
      <<Text>>, <<Text, Text>>, <<Text>>, <<Text, Text>>, <<Text, Text>>>>

\* line 42: "<prop> at <k1>=<v1>, <k2>=<v2> for <fluid>: <result>"; a fluid
\* named with its backend, as in HEOS::Water, brings two colons of its own
ResultLine(v, backend) ==
    IF backend THEN <<Text, Text, Text, Num(v)>> ELSE <<Text, Num(v)>>

\* lines 44-47: "Error: ...", "Make sure ...", "Common fluids: ...", an empty
\* line and "For a complete list of fluids, visit: http://www...html"
ErrorLines ==
    <<<<Text, Text>>, <<Text>>, <<Text, Text>>, <<Text>>,
      <<Text, Text, Text>>>>

CliInit ==
    /\ kpc = "start"
    /\ via \in {"shell", "solver"}
    /\ argv \in [argc : {5, 6, 7}, in1 : BOOLEAN, in2 : BOOLEAN,
                 backend : BOOLEAN]
    \* lines 22-28 of property_solver.py: six arguments after the script,
    \* the two values written by str()
    /\ via = "solver" => (argv.argc = 7 /\ argv.in1 /\ argv.in2)
    /\ argv.argc < 7 => ~argv.backend
    \* what PropsSI does: <<v>> returns v, <<>> raises
    /\ lookup \in {<<>>} \cup {<<v>> : v \in 0..MaxResult}
    /\ stdout = <<>> /\ returncode = -1 /\ value = <<>> /\ kexc = "none"

cliFrame == <<via, argv, lookup>>

\* python cannot run the script (it is not in the working directory, or
\* CoolProp cannot be imported, line 2): exit status 2 or 1, nothing printed
CliCannotStart ==
    /\ kpc = "start"
    /\ returncode' = 2
    /\ kpc' = "exited"
    /\ UNCHANGED <<stdout, value, kexc>>
    /\ UNCHANGED cliFrame

\* lines 19-27
CliUsage ==
    /\ kpc = "start"
    /\ argv.argc < 6
    /\ stdout' = stdout \o UsageLines
    /\ returncode' = 1
    /\ kpc' = "exited"
    /\ UNCHANGED <<value, kexc>>
    /\ UNCHANGED cliFrame

\* lines 31 and 33: float() of an argument raises, outside the try
CliBadNumber ==
    /\ kpc = "start"
    /\ argv.argc >= 6
    /\ ~argv.in1 \/ ~argv.in2
    /\ returncode' = 1
    /\ kpc' = "exited"
    /\ UNCHANGED <<stdout, value, kexc>>
    /\ UNCHANGED cliFrame

\* lines 43-50: the except clause ends main, and the script ends normally
ExitAfterError == 0

\* lines 40-42
CliResult ==
    /\ kpc = "start"
    /\ argv.argc >= 6 /\ argv.in1 /\ argv.in2
    /\ lookup # <<>>
    /\ stdout' = Append(stdout, ResultLine(lookup[1], argv.backend))
    /\ returncode' = 0
    /\ kpc' = "exited"
    /\ UNCHANGED <<value, kexc>>
    /\ UNCHANGED cliFrame

\* lines 40-47
CliLookupFails ==
    /\ kpc = "start"
    /\ argv.argc >= 6 /\ argv.in1 /\ argv.in2
    /\ lookup = <<>>
    /\ stdout' = stdout \o ErrorLines
    /\ returncode' = ExitAfterError
    /\ kpc' = "exited"
    /\ UNCHANGED <<value, kexc>>
    /\ UNCHANGED cliFrame

\* property_solver.py line 30, check=True, and lines 41-42
CallProcessFailed ==
    /\ kpc = "exited" /\ via = "solver"
    /\ returncode # 0
    /\ kexc' = "RuntimeError"
    /\ kpc' = "raised"
    /\ UNCHANGED <<stdout, returncode, value>>
    /\ UNCHANGED cliFrame

\* line 31 and 34: the last line of stdout.strip().split('\n'); the
\* program never ends its output with an empty line
LastLine(lines) == IF lines = <<>> THEN <<Text>> ELSE lines[Len(lines)]

\* taking the field after the first colon
ValueField_First(line) == line[2]

\* line 36: last_line.split(":")[-1]
ValueField(line) == line[Len(line)]

\* line 35: ":" in last_line
HasColon(line) == Len(line) > 1

\* lines 35-39: the float returned, or <<>> for the ValueError
ParseLastLine(lines) ==
    IF HasColon(LastLine(lines))
       THEN ValueField(LastLine(lines)).float
       ELSE <<>>

\* lines 31-37: the value is returned
CallReturns ==
    /\ kpc = "exited" /\ via = "solver"
    /\ returncode = 0
    /\ ParseLastLine(stdout) # <<>>
    /\ value' = ParseLastLine(stdout)
    /\ kpc' = "returned"
    /\ UNCHANGED <<stdout, returncode, kexc>>
    /\ UNCHANGED cliFrame

\* lines 31-39 and 43-44: the ValueError becomes a RuntimeError
CallParseFails ==
    /\ kpc = "exited" /\ via = "solver"
    /\ returncode = 0
    /\ ParseLastLine(stdout) = <<>>
    /\ kexc' = "RuntimeError"
    /\ kpc' = "raised"
    /\ UNCHANGED <<stdout, returncode, value>>
    /\ UNCHANGED cliFrame

notCli == <<solverVars, chainVars, unitVars, hxVars>>

CliNext ==
    \/ CliCannotStart /\ UNCHANGED notCli
    \/ CliUsage /\ UNCHANGED notCli
    \/ CliBadNumber /\ UNCHANGED notCli
    \/ CliResult /\ UNCHANGED notCli
    \/ CliLookupFails /\ UNCHANGED notCli
    \/ CallProcessFailed /\ UNCHANGED notCli
    \/ CallReturns /\ UNCHANGED notCli
    \/ CallParseFails /\ UNCHANGED notCli

\* only coolprop_cli.py and its caller run
CliProgram == CliInit /\ SolverStopped /\ ChainIdle /\ UnitIdle /\ HxIdle

CliSpec == CliProgram /\ [][CliNext]_vars

SolverNext ==
    \/ SolveStart /\ UNCHANGED <<chainVars, unitVars, hxVars, cliVars>>
    \/ IterConverged /\ UNCHANGED <<chainVars, unitVars, hxVars, cliVars>>
    \/ IterUpdate /\ UNCHANGED <<chainVars, unitVars, hxVars, cliVars>>
    \/ IterLookupFails /\ UNCHANGED <<chainVars, unitVars, hxVars, cliVars>>
    \/ IterDivisionByZero /\ UNCHANGED <<chainVars, unitVars, hxVars, cliVars>>
    \/ FinalReturn /\ UNCHANGED <<chainVars, unitVars, hxVars, cliVars>>
    \/ FinalRaises /\ UNCHANGED <<chainVars, unitVars, hxVars, cliVars>>

\* only the solver runs
\* brackets of a few doubles: min_guess and max_guess are at most MaxUlps
\* spacings apart
MaxUlps == 3

NarrowGuesses == {Grid + i : i \in 0..MaxUlps}

SolverNarrowInit ==
    /\ target_value \in Targets
    /\ min_guess \in NarrowGuesses
    /\ max_guess \in NarrowGuesses
    /\ min_guess < max_guess
    /\ tolerance \in Tolerances
    /\ max_iterations \in 1..MaxIter
    /\ fa \in Slopes
    /\ fb \in Offsets
    /\ spc = "start"
    /\ SolverIdle

SolverNarrowProgram ==
    SolverNarrowInit /\ ChainIdle /\ UnitIdle /\ HxIdle /\ CliIdle

\* solve_property on a bracket of a few doubles
SolverNarrowSpec == SolverNarrowProgram /\ [][SolverNext]_vars

SolverProgram == SolverInit /\ ChainIdle /\ UnitIdle /\ HxIdle /\ CliIdle

SolverSpec == SolverProgram /\ [][SolverNext]_vars

\* the loop cannot be cancelled and nothing else runs: a step that can be
\* taken is taken
SolverFairSpec ==
    SolverProgram /\ [][SolverNext]_vars /\ WF_vars(SolverNext)

(***************************************************************************)
(* What a run of solve_property printed and how it ended.                  *)
(***************************************************************************)
Terminated == spc \in {"returned", "raised"}

IterIdx == {i \in 1..Len(out) : out[i].kind = "iter"}
FailedIdx == {i \in IterIdx : ~out[i].ok}
OkIdx == {i \in IterIdx : out[i].ok}

\* the service behaved as the function f in every lookup of the run
NoLookupFailed == FailedIdx = {} /\ exc # "RuntimeError"

\* the loop ran max_iterations times without returning
Exhausted == spc # "start" /\ ~LoopRuns(iteration, max_iterations)

\* f(x) = target_value has a solution in [min_guess, max_guess]
RootInside ==
    (ServiceValue(min_guess) - target_value)
        * (ServiceValue(max_guess) - target_value) <= 0

\* halving the bracket max_iterations times brings an increasing f within
\* the tolerance: |fa| * width / 2^max_iterations < tolerance * |target|
BudgetSuffices ==
    Abs(fa) * (max_guess - min_guess) * TolDen
        < tolerance * Abs(target_value) * Pow2(max_iterations)

InTolerance(r) == Len(r) = 3 /\ ErrorBelow(r[2], target_value, tolerance)

(***************************************************************************)
(* C1: with the service a linear function f(x) = a*x + b, a # 0 of either  *)
(* sign, a non-zero target and the root inside the bracket, a run ends by  *)
(* returning a guess whose f-image is within the tolerance, with           *)
(* iterations_used <= max_iterations.  Stated for runs whose iteration     *)
(* budget is large enough for bisection to get that close.                 *)
(***************************************************************************)
C1_LinearConverges ==
    (/\ Terminated
     /\ fa # 0
     /\ target_value # 0
     /\ RootInside
     /\ BudgetSuffices
     /\ NoLookupFailed)
    => (/\ spc = "returned"
        /\ InTolerance(result)
        /\ result[2] = ServiceValue(result[1])
        /\ result[3] <= max_iterations)

(***************************************************************************)
(* C2: an iteration whose lookup succeeds with relative error strictly     *)
(* below the tolerance is the last one: the run has returned (guess,       *)
(* value at that guess, 1-based number of that iteration), and the number  *)
(* of lookups made equals that number.                                     *)
(***************************************************************************)
C2_StopsAtFirstConvergence ==
    \A i \in OkIdx :
        (target_value # 0
         /\ ErrorBelow(out[i].actual, target_value, tolerance))
        => (/\ spc = "returned"
            /\ i = Len(out) - 1
            /\ out[Len(out)].kind = "converged"
            /\ out[i].actual = ServiceValue(out[i].guess)
            /\ out[i].n = Cardinality({j \in IterIdx : j <= i})
            /\ result = <<out[i].guess, out[i].actual, out[i].n>>
            /\ queries = out[i].n)

C2_Witness ==
    /\ spc = "returned"
    /\ out[Len(out)].kind = "converged"
    /\ result[3] >= 3
    /\ FailedIdx # {}

(***************************************************************************)
(* C3: once max_iterations iterations have run without convergence the     *)
(* run does not fail, whatever the service does: it returns the midpoint   *)
(* of the final bracket, the value there, and max_iterations.              *)
(***************************************************************************)
C3_ExhaustionReturns ==
    (Exhausted /\ Terminated)
    => (/\ spc = "returned"
        /\ result = <<Midpoint(low, high),
                      ServiceValue(Midpoint(low, high)), max_iterations>>)

(***************************************************************************)
(* C4: a result returned after exhausting the iterations carries an        *)
(* explicit non-converged flag, or at least cannot be taken for the result *)
(* of a run that converged (a value within tolerance and an iteration      *)
(* count of at most max_iterations).                                       *)
(***************************************************************************)
C4_NonConvergedIsFlagged ==
    (Exhausted /\ spc = "returned")
    => \/ Len(result) >= 4
       \/ ~(InTolerance(result) /\ result[3] \in 1..max_iterations)

(***************************************************************************)
(* C5: a lookup failure in the first iteration ends the run at once with   *)
(* that failure: the bracket is still the caller's, one lookup was made,   *)
(* nothing is returned.                                                    *)
(***************************************************************************)
C5_FirstFailurePropagates ==
    \A i \in FailedIdx :
        (out[i].n = 1 /\ out[i].error = "RuntimeError")
        => (/\ spc = "raised"
            /\ exc = "RuntimeError"
            /\ low = min_guess
            /\ high = max_guess
            /\ queries = 1
            /\ i = Len(out)
            /\ result = <<>>)

C5_Witness ==
    /\ spc = "raised"
    /\ exc = "RuntimeError"
    /\ queries = 1
    /\ iteration = 0

(***************************************************************************)
(* C6: right after a lookup failure in an iteration after the first the    *)
(* run has not aborted and the bracket [low, high] still contains the most *)
(* recent guess whose lookup succeeded.                                    *)
(***************************************************************************)
LastOkGuess == out[CHOOSE i \in OkIdx : \A j \in OkIdx : j <= i].guess

C6_NarrowsTowardLastSuccess ==
    (/\ Len(out) \in FailedIdx
     /\ out[Len(out)].n > 1
     /\ out[Len(out)].error = "RuntimeError")
    => (/\ spc = "loop"
        /\ low <= LastOkGuess
        /\ LastOkGuess <= high)

(***************************************************************************)
(* C7: a zero target_value never surfaces as a division by zero; when it   *)
(* ends the run, it does so as a configuration error.                      *)
(***************************************************************************)
C7_ZeroTargetIsConfigError ==
    target_value = 0
    => (/\ exc # "ZeroDivisionError"
        /\ (spc = "raised" /\ exc # "RuntimeError"
            => exc = "DegenerateInput"))

(***************************************************************************)
(* C8 as claimed: with target_value = f(min_guess) or f(max_guess) a run   *)
(* converges in its first or second iteration with every guess inside the  *)
(* caller's bounds.  Stated for an increasing f, a non-zero target and     *)
(* max_iterations >= 2, where bisection moves the right way.               *)
(***************************************************************************)
EndpointTarget ==
    \/ target_value = ServiceValue(min_guess)
    \/ target_value = ServiceValue(max_guess)

GuessIdx == {i \in 1..Len(out) : out[i].kind # "header"}

GuessesInBounds ==
    \A i \in GuessIdx : min_guess <= out[i].guess /\ out[i].guess <= max_guess

C8_EndpointConvergesByTwo ==
    (/\ Terminated
     /\ fa > 0
     /\ target_value # 0
     /\ max_iterations >= 2
     /\ EndpointTarget
     /\ NoLookupFailed)
    => (/\ spc = "returned"
        /\ out[Len(out)].kind = "converged"
        /\ result[3] <= 2
        /\ GuessesInBounds)

(***************************************************************************)
(* C8 amended: with f monotonic (either direction) and target_value =      *)
(* f(min_guess) or f(max_guess), every guess that is looked up lies in     *)
(* [min_guess, max_guess]; a run that converges does so at the first       *)
(* iteration whose value is within the tolerance, whichever iteration that *)
(* is.                                                                     *)
(***************************************************************************)
C8_EndpointStaysInBounds ==
    (fa # 0 /\ EndpointTarget /\ NoLookupFailed)
    => (/\ GuessesInBounds
        /\ (spc = "returned" /\ out[Len(out)].kind = "converged"
            => \A i \in OkIdx :
                  out[i].n < result[3]
                  => ~ErrorBelow(out[i].actual, target_value, tolerance)))

C8_Witness ==
    /\ fa > 0
    /\ EndpointTarget
    /\ NoLookupFailed
    /\ spc = "returned"
    /\ out[Len(out)].kind = "converged"
    /\ result[3] > 2

(***************************************************************************)
(* C9: a run terminates; the loop body runs at most max_iterations times,  *)
(* every lookup of the loop (failed or not) uses up one iteration, no two  *)
(* iterations look up the same guess, and a run makes at most              *)
(* max_iterations + 1 lookups.                                             *)
(***************************************************************************)
C9_Bounded ==
    /\ iteration <= max_iterations
    /\ queries <= max_iterations + 1
    /\ Cardinality(IterIdx) <= max_iterations
    /\ spc = "loop" => queries = iteration /\ Cardinality(IterIdx) = iteration
    /\ \A i, j \in IterIdx :
          i < j => out[i].guess # out[j].guess /\ out[i].n < out[j].n

C10_MassConserved ==
    /\ valve.built => valve.m_dot = m_dot
    /\ separator.built
       => /\ separator.m_dot = m_dot
          /\ separator.m_dot_vap + separator.m_dot_liq = separator.m_dot
    /\ vapor_cooler.built => vapor_cooler.m_dot = separator.m_dot_vap
    /\ liquid_heater.built => liquid_heater.m_dot = separator.m_dot_liq
    /\ mixer.built
       => mixer.m_dot_out = mixer.m_dot_1 + mixer.m_dot_2

C10_Witness ==
    /\ mixer.built
    /\ separator.x_in \notin {0, XDen}
    /\ separator.m_dot_vap # 0
    /\ separator.m_dot_liq # 0

(***************************************************************************)
(* The unit operations of fluid-separator.py, called on their own          *)
(***************************************************************************)
ThrottleBuilt == ucase = "throttle" /\ valve # NotBuilt

\* C11: a throttle's outlet enthalpy is its inlet enthalpy, which is looked
\* up at (T_in, P_in) and is the same for every outlet pressure and mass
\* flow; the outlet entropy and the outlet quality are both looked up at
\* (H = h_out, P = P_out), and these are the lookups the constructor makes.
C11_ThrottleIsenthalpic ==
    ThrottleBuilt =>
        /\ valve.h_out = valve.h_in
        /\ valve.h_in = PropsSI("H", "T", uin.T_in, "P", uin.P_in)
        /\ \A po \in {P2, 100000}, m \in UnitFlows :
              Throttle(uin.T_in, uin.P_in, po, m).h_out = valve.h_out
        /\ valve.s_out = PropsSI("S", "H", valve.h_out, "P", uin.P_out)
        /\ valve.x_out = PropsSI("Q", "H", valve.h_out, "P", uin.P_out)
        /\ SubSeq(calls, 1, 4) =
              <<Lookup("H", "T", uin.T_in, "P", uin.P_in),
                Lookup("S", "T", uin.T_in, "P", uin.P_in),
                Lookup("S", "H", valve.h_in, "P", uin.P_out),
                Lookup("Q", "H", valve.h_in, "P", uin.P_out)>>

C11_Witness ==
    /\ ThrottleBuilt
    /\ uin.P_out = 100000 /\ uin.m = 2 * XDen
    /\ Len(calls) = 4

MixerBuilt == ucase = "mixer" /\ mixer # NotBuilt

\* C12: a mixer's outlet flow is the sum of the inlet flows and its outlet
\* enthalpy satisfies m_dot_out * h_out = m_dot_1 * h_1 + m_dot_2 * h_2; for
\* equal inlet flows h_out is the arithmetic mean, 200000 for inlets of
\* 100000 and 300000.
C12_MixerEnergyBalance ==
    MixerBuilt =>
        /\ mixer.m_dot_out = mixer.m_dot_1 + mixer.m_dot_2
        /\ mixer.m_dot_out * mixer.h_out.num =
              (mixer.m_dot_1 * mixer.h_1 + mixer.m_dot_2 * mixer.h_2)
                 * mixer.h_out.den
        /\ mixer.m_dot_1 = mixer.m_dot_2 =>
              2 * mixer.h_out.num = (mixer.h_1 + mixer.h_2) * mixer.h_out.den
        /\ (mixer.m_dot_1 = mixer.m_dot_2
               /\ mixer.h_1 = 100000 /\ mixer.h_2 = 300000) =>
              mixer.h_out.num = 200000 * mixer.h_out.den

C12_Witness ==
    /\ MixerBuilt
    /\ mixer.m_dot_1 = XDen /\ mixer.m_dot_2 = XDen
    /\ mixer.h_1 = 100000 /\ mixer.h_2 = 300000
    /\ mixer.h_out.num = 200000 * mixer.h_out.den

\* the entropy generation of each unit, from the fields of the object
ThrottleConsistent ==
    /\ uin.T0 > 0 /\ valve.m_dot >= 0
    /\ valve.s_out >= valve.s_in

FlashConsistent ==
    /\ uin.T0 > 0 /\ separator.m_dot >= 0
    /\ separator.x_in >= 0 /\ separator.x_in <= XDen
    /\ separator.m_dot_vap * separator.s_vap
          + separator.m_dot_liq * separator.s_liq
       >= separator.m_dot * separator.s_in[1]

MixerConsistent ==
    /\ uin.T0 > 0 /\ mixer.m_dot_1 >= 0 /\ mixer.m_dot_2 >= 0
    /\ mixer.m_dot_out * mixer.s_out
       >= mixer.m_dot_1 * mixer.s_1 + mixer.m_dot_2 * mixer.s_2

\* C13: with a positive ambient temperature, non-negative flows and
\* entropies that do not decrease through the unit, every exergy
\* destruction a throttle, a flash separator or a mixer returns is >= 0.
C13_ExergyDestructionNonNegative ==
    \A i \in 1..Len(xd) :
        /\ (ucase = "throttle" /\ ThrottleConsistent) => xd[i].num >= 0
        /\ (ucase = "flash" /\ FlashConsistent) => xd[i].num >= 0
        /\ (ucase = "mixer" /\ MixerConsistent) => xd[i].num >= 0

C13_Witness ==
    /\ ucase = "throttle" /\ Len(xd) = MaxExergyCalls
    /\ ThrottleConsistent /\ valve.m_dot > 0 /\ valve.s_out > valve.s_in
    /\ xd[1].num > 0

FlashOutlets(o) ==
    <<o.m_dot_vap, o.h_vap, o.s_vap, o.T_vap,
      o.m_dot_liq, o.h_liq, o.s_liq, o.T_liq>>

ChainObjects == <<valve, separator, vapor_cooler, liquid_heater, mixer>>

ConstructorLines == <<163, 164, 171, 173, 181>>

C16_TotalAndDominant ==
    cpc = "done" =>
        /\ components =
              <<ThrottleExergy(valve, T0Main),
                FlashExergy(separator, T0Main),
                HeatExchangerExergy(vapor_cooler, T0Main, <<>>),
                HeatExchangerExergy(liquid_heater, T0Main, <<TBoundaryHeater>>),
                MixerExergy(mixer, T0Main)>>
        /\ LET d == components[1].den * components[2].den * components[3].den
                       * components[4].den * components[5].den
               part(i) == components[i].num * (d \div components[i].den)
           IN total_xd.num * d =
                 total_xd.den * (part(1) + part(2) + part(3) + part(4) + part(5))
        /\ \E i \in 1..5 :
              /\ dominant = ComponentNames[i]
              /\ \A j \in 1..5 :
                    components[j].num * components[i].den
                       <= components[i].num * components[j].den

C16_Witness ==
    /\ cpc = "done"
    /\ dominant = "Vapor Cooler"
    /\ total_xd.num > 0
    /\ \E j \in 1..5 : RatLess(components[j], components[3])

(***************************************************************************)
(* The counterflow evaluator, main of counterflow-hx.py                    *)
(***************************************************************************)
Printed(k, text) == \E i \in 1..Len(hout) : hout[i] = <<k, text>>

CasesPrinted == Printed(2, "T_c,out")

\* the outlet temperature of the other stream was obtained
Obtained(k) == IF k = 1 THEN case1.T_c_out # <<>> ELSE case2.T_h_out # <<>>

\* the approach temperature at the end opposite to the pinch: hot inlet
\* against cold outlet for case 1, hot outlet against cold inlet for case 2
Approach(k) ==
    IF k = 1 THEN FSub(Rat(T_h_in, 1), case1.T_c_out[1])
    ELSE FSub(case2.T_h_out[1], Rat(T_c_in, 1))

Feasible(k) == Obtained(k) /\ ~RatLess(Approach(k), Rat(dTmin, 1))

\* C17: once the two cases are printed, a case is printed FEASIBLE exactly
\* when the other stream's outlet temperature was obtained and the approach
\* at the opposite end is >= dTmin, and INFEASIBLE exactly when that
\* temperature was obtained and the approach is < dTmin.
C17_Classification ==
    CasesPrinted =>
        \A k \in {1, 2} :
            /\ Printed(k, "FEASIBLE") <=> Feasible(k)
            /\ Printed(k, "INFEASIBLE") <=>
                  (Obtained(k) /\ RatLess(Approach(k), Rat(dTmin, 1)))

C17_Witness ==
    /\ CasesPrinted
    /\ Printed(1, "FEASIBLE") /\ Approach(1) = Rat(dTmin, 1)
    /\ Printed(2, "FEASIBLE")

\* C18: compute_boundary_temperatures, compute_exergy_destruction and
\* compute_exergetic_efficiency are called only for a case that is
\* feasible, and when neither case is feasible none of them is called and
\* no boundary temperature, exergy destruction or efficiency exists.
C18_AnalysisOnlyOnFeasible ==
    /\ \A i \in 1..Len(hcalls) :
          hcalls[i].case \in {1, 2} /\ Feasible(hcalls[i].case)
    /\ (hpc \in {"analyse", "done"} /\ ~Feasible(1) /\ ~Feasible(2)) =>
          /\ hcalls = <<>> /\ boundary = NotBuilt
          /\ Xdest = <<>> /\ eta_ex = <<>>

C18_Witness ==
    /\ hpc = "done" /\ Len(hcalls) = 3
    /\ hcalls[1].case = 2
    /\ Obtained(1) /\ ~Feasible(1)
    /\ Xdest # <<>> /\ eta_ex # <<>>

\* C19: when the program ends with neither case feasible, it has printed
\* that the exergy analysis is unavailable.
C19_SkipIsReported ==
    (hpc = "done" /\ ~Feasible(1) /\ ~Feasible(2)) =>
        \E i \in 1..Len(hout) : hout[i][2] = "exergy analysis unavailable"

\* C20: with a hot mass flow of 0 the case with the pinch at the cold
\* outlet has no hot-outlet enthalpy or temperature, is printed as not
\* computable and is not the case analysed; with a cold mass flow of 0 the
\* program reports a configuration error and evaluates no case.
C20_DegenerateRatioIsReported ==
    /\ (m_dot_h = 0 /\ m_dot_c # 0 /\ case2 # NotBuilt) =>
          /\ case2.h_h_out = <<>> /\ case2.T_h_out = <<>>
          /\ CasesPrinted => Printed(2, "mu was zero")
          /\ \A i \in 1..Len(hcalls) : hcalls[i].case # 2
    /\ (m_dot_c = 0 /\ hpc # "start") =>
          /\ \E i \in 1..Len(hout) : hout[i][2] = "configuration error"
          /\ case1 = NotBuilt /\ case2 = NotBuilt

(***************************************************************************)
(* The property CLI, programs/coolprop_cli.py, and its caller              *)
(***************************************************************************)
LookupFailed ==
    /\ kpc # "start" /\ returncode # 2
    /\ argv.argc >= 6 /\ argv.in1 /\ argv.in2
    /\ lookup = <<>>

\* C21: when the lookup fails the CLI prints the error and the list of
\* common fluids and exits with a status other than 0; when it exits with 0
\* the last line it printed is a result line.
C21_FailureExitsNonZero ==
    /\ LookupFailed => (stdout = ErrorLines /\ returncode # 0)
    /\ (kpc # "start" /\ returncode = 0) =>
          (stdout # <<>> /\ \E v \in 0..MaxResult :
                               stdout[Len(stdout)] = ResultLine(v, argv.backend))

\* C28: a lookup that fails reaches the caller of call_coolprop_cli as a
\* RuntimeError and never as a value: the call raises RuntimeError when the
\* process exits with a status other than 0, when the last line has no
\* colon and when what follows its last colon is not a number, and it
\* returns a float only when the last line ends in a number, which is then
\* the result the CLI printed.
C28_FailureNeverAValue ==
    (via = "solver" /\ kpc \in {"returned", "raised"}) =>
        /\ (lookup = <<>> \/ returncode # 0) =>
              (kpc = "raised" /\ kexc = "RuntimeError" /\ value = <<>>)
        /\ kpc = "returned" =>
              /\ returncode = 0 /\ lookup # <<>> /\ value = lookup
              /\ stdout[Len(stdout)][Len(stdout[Len(stdout)])] = Num(value[1])
        /\ (lookup # <<>> /\ returncode = 0) => kpc = "returned"
        /\ kpc = "raised" =>
              \/ returncode # 0
              \/ Len(LastLine(stdout)) = 1
              \/ LastLine(stdout)[Len(LastLine(stdout))].float = <<>>

C28_Witness ==
    /\ via = "solver" /\ kpc = "raised" /\ kexc = "RuntimeError"
    /\ lookup = <<>> /\ returncode = 0
    /\ stdout = ErrorLines

(***************************************************************************)
(* solve_property: the bracket and the printed lines                       *)
(***************************************************************************)
\* C26: once the bracket is seeded, min_guess <= low < high <= max_guess,
\* the width of the bracket is the initial width halved once per iteration
\* that went on to the next, and every guess queried lies strictly between
\* min_guess and max_guess.
C26_BracketInvariant ==
    spc # "start" =>
        /\ min_guess <= low /\ low < high /\ high <= max_guess
        /\ (high - low) * Pow2(iteration) = max_guess - min_guess
        /\ \A i \in IterIdx :
              min_guess < out[i].guess /\ out[i].guess < max_guess

\* the number of loop bodies a terminated run has executed
Executed ==
    IF LoopRuns(iteration, max_iterations) THEN iteration + 1
    ELSE max_iterations

Summaries ==
    {i \in 1..Len(out) : out[i].kind \in {"converged", "nonconverged"}}

\* C27 as stated: a terminated run has printed one line per iteration
\* executed, in order, and then exactly one summary, the convergence or the
\* non-convergence summary.
C27_LinesThenOneSummary ==
    Terminated =>
        /\ \A k \in 1..Executed :
              out[k + 1].kind = "iter" /\ out[k + 1].n = k
        /\ Cardinality(IterIdx) = Executed
        /\ Cardinality(Summaries) = 1
        /\ Len(out) \in Summaries

\* C27 amended: a terminated run has printed one line per iteration
\* executed, in order; a run that returned has printed exactly one summary
\* after them, the convergence summary if it returned from the loop and the
\* non-convergence summary otherwise; a run that raised has printed no
\* summary.
C27_LinesThenSummaryIfReturned ==
    Terminated =>
        /\ out[1].kind = "header"
        /\ \A k \in 1..Executed :
              out[k + 1].kind = "iter" /\ out[k + 1].n = k
        /\ Cardinality(IterIdx) = Executed
        /\ spc = "returned" =>
              /\ Len(out) = Executed + 2
              /\ Summaries = {Len(out)}
              /\ out[Len(out)].kind = "converged"
                    <=> LoopRuns(iteration, max_iterations)
        /\ spc = "raised" => (Len(out) = Executed + 1 /\ Summaries = {})

C27_Witness ==
    /\ spc = "raised"
    /\ ~LoopRuns(iteration, max_iterations)
    /\ max_iterations >= 2
    /\ Len(out) = max_iterations + 1
    /\ FailedIdx # {}

(***************************************************************************)
(* HeatExchanger and FlashSeparator on their own                           *)
(***************************************************************************)
HxBuilt == ucase = "hx" /\ vapor_cooler # NotBuilt

\* C22: a heat exchanger's duty is q_dot = m_dot * (h_out - h_in), positive
\* when h_out > h_in and negative when h_out < h_in for m_dot > 0; every
\* exergy destruction it returns is
\* T0 * (m_dot * (s_out - s_in) - q_dot / T_boundary), and without a
\* T_boundary it is what T_boundary = T0 gives.
C22_HeatExchangerDutyAndExergy ==
    HxBuilt =>
        LET o == vapor_cooler
            ds == o.s_out - o.s_in
        IN /\ o.q_dot = o.m_dot * (o.h_out - o.h_in)
           /\ (o.m_dot > 0 /\ o.h_out > o.h_in) => o.q_dot > 0
           /\ (o.m_dot > 0 /\ o.h_out < o.h_in) => o.q_dot < 0
           /\ \A i \in 1..Len(xd) :
                 IF uin.Tb = <<>>
                    THEN /\ xd[i].num * uin.T0 =
                               xd[i].den * uin.T0
                                  * (o.m_dot * ds * uin.T0 - o.q_dot)
                         /\ uin.T0 # 0
                         /\ xd[i] = HeatExchangerExergy(o, uin.T0, <<uin.T0>>)
                    ELSE xd[i].num * uin.Tb[1] =
                            xd[i].den * uin.T0
                               * (o.m_dot * ds * uin.Tb[1] - o.q_dot)

C22_Witness ==
    /\ HxBuilt /\ uin.Tb = <<>> /\ uin.T0 = 300
    /\ vapor_cooler.m_dot > 0 /\ vapor_cooler.q_dot < 0
    /\ Len(xd) = MaxExergyCalls /\ xd[1].num # 0

\* C23: no call of exergy_destruction changes an attribute of the object
\* it is called on: an object that exists stays as it is.
C23_ObjectsAreImmutable ==
    [][/\ valve # NotBuilt => valve' = valve
       /\ separator # NotBuilt => separator' = separator
       /\ vapor_cooler # NotBuilt => vapor_cooler' = vapor_cooler
       /\ mixer # NotBuilt => mixer' = mixer]_vars

\* C24: a call of FlashSeparator.exergy_destruction makes no lookup when
\* the object has an inlet entropy, and uses it as it is; when it has none
\* it looks up H at (P, Q = x_in) and then S at (H = h_mix, P) and uses that
\* entropy; in both cases it returns
\* T0 * ((m_vap * s_vap + m_liq * s_liq) - m_dot * s_in).
C24_FlashInletEntropy ==
    [][(ucase = "flash" /\ Len(xd') > Len(xd)) =>
          LET o == separator
              h_mix == PropsSI("H", "P", o.P, "Q", o.x_in)
              s == IF o.s_in # <<>> THEN o.s_in[1]
                   ELSE PropsSI("S", "H", h_mix, "P", o.P)
          IN /\ calls' = IF o.s_in # <<>> THEN calls
                         ELSE calls \o <<Lookup("H", "P", o.P, "Q", o.x_in),
                                         Lookup("S", "H", h_mix, "P", o.P)>>
             /\ uin.s_in # <<>> => s = uin.s_in[1]
             /\ xd'[Len(xd')] =
                   [num |-> uin.T0 * ((o.m_dot_vap * o.s_vap
                                       + o.m_dot_liq * o.s_liq) - o.m_dot * s),
                    den |-> 1]]_vars

C24_Witness ==
    /\ ucase = "flash" /\ Len(xd) = 1 /\ uin.s_in = <<>>
    /\ uin.T0 = 300 /\ uin.m > 0
    /\ Len(calls) = 8
    /\ xd[1].num # 0

(***************************************************************************)
(* The wiring of the chain                                                 *)
(***************************************************************************)
\* C25: the chain is built in the order Throttle, FlashSeparator, vapour
\* heat exchanger, liquid heat exchanger, Mixer; each object's inlet state
\* is the outlet state of the object upstream of it, and the mixer's outlet
\* flow is the throttle's inlet flow.
C25_ChainWiring ==
    /\ \A i \in 2..Len(ChainObjects) :
          ChainObjects[i] # NotBuilt => ChainObjects[i - 1] # NotBuilt
    /\ valve # NotBuilt =>
          /\ valve.T_in = T1 /\ valve.P_in = P1 /\ valve.P_out = P2
          /\ valve.m_dot = m_dot
    /\ separator # NotBuilt =>
          /\ separator.P = valve.P_out
          /\ separator.x_in = valve.x_out
          /\ separator.s_in = <<valve.s_out>>
          /\ separator.m_dot = valve.m_dot
    /\ vapor_cooler # NotBuilt =>
          /\ vapor_cooler.P = separator.P
          /\ vapor_cooler.h_in = separator.h_vap
          /\ vapor_cooler.s_in = separator.s_vap
          /\ vapor_cooler.m_dot = separator.m_dot_vap
    /\ liquid_heater # NotBuilt =>
          /\ liquid_heater.P = separator.P
          /\ liquid_heater.h_in = separator.h_liq
          /\ liquid_heater.s_in = separator.s_liq
          /\ liquid_heater.m_dot = separator.m_dot_liq
    /\ mixer # NotBuilt =>
          /\ mixer.P = separator.P
          /\ mixer.h_1 = vapor_cooler.h_out /\ mixer.s_1 = vapor_cooler.s_out
          /\ mixer.m_dot_1 = vapor_cooler.m_dot
          /\ mixer.h_2 = liquid_heater.h_out /\ mixer.s_2 = liquid_heater.s_out
          /\ mixer.m_dot_2 = liquid_heater.m_dot
          /\ mixer.m_dot_out = valve.m_dot

C25_Witness ==
    /\ cpc = "done" /\ mixer # NotBuilt
    /\ valve.m_dot > 0
    /\ 0 < valve.x_out /\ valve.x_out < XDen
    /\ separator.h_vap # separator.h_liq

\* C30: for a quality in [0, 1] and a flow m_dot >= 0 both outlet flows of
\* the flash separator lie in [0, m_dot]; the separator takes the quality
\* the throttle gives it as it is, so that a throttle quality outside [0, 1]
\* with m_dot > 0 gives a negative outlet flow; the two outlet flows always
\* sum to m_dot.
C30_FlashFlows ==
    /\ \A x \in 0..XDen, m \in Flows :
          /\ 0 <= FlashVapFlow(x, m) /\ FlashVapFlow(x, m) <= m
          /\ 0 <= FlashLiqFlow(x, m) /\ FlashLiqFlow(x, m) <= m
    /\ separator # NotBuilt =>
          LET o == separator
          IN /\ o.x_in = valve.x_out /\ o.m_dot = m_dot
             /\ o.m_dot_vap * XDen = o.x_in * o.m_dot
             /\ o.m_dot_liq * XDen = (XDen - o.x_in) * o.m_dot
             /\ o.m_dot_vap + o.m_dot_liq = o.m_dot
             /\ (0 <= o.x_in /\ o.x_in <= XDen) =>
                   /\ 0 <= o.m_dot_vap /\ o.m_dot_vap <= o.m_dot
                   /\ 0 <= o.m_dot_liq /\ o.m_dot_liq <= o.m_dot
             /\ ((o.x_in < 0 \/ o.x_in > XDen) /\ o.m_dot > 0) =>
                   (o.m_dot_vap < 0 \/ o.m_dot_liq < 0)

C30_Witness ==
    /\ separator # NotBuilt /\ m_dot > 0
    /\ valve.x_out = -XDen
    /\ separator.m_dot_vap < 0
    /\ separator.m_dot_vap + separator.m_dot_liq = m_dot

(***************************************************************************)
(* The candidate the counterflow evaluator analyses                        *)
(***************************************************************************)
CallsOf(f) == {i \in 1..Len(hcalls) : hcalls[i].fn = f}

\* C29: a run computes boundary temperatures for at most one case; that
\* case is case 1 whenever case 1 is feasible, and case 2 only when case 1
\* is not feasible and case 2 is; the exergy destruction and the exergetic
\* efficiency are each computed at most once, for that case, and only after
\* its boundary temperatures.
C29_AtMostOneCandidate ==
    LET B == CallsOf("compute_boundary_temperatures")
        X == CallsOf("compute_exergy_destruction")
        E == CallsOf("compute_exergetic_efficiency")
    IN /\ Cardinality(B) <= 1 /\ Cardinality(X) <= 1 /\ Cardinality(E) <= 1
       /\ B \cup X \cup E = 1..Len(hcalls)
       /\ \A i \in B :
             /\ Feasible(1) => hcalls[i].case = 1
             /\ hcalls[i].case = 2 => (~Feasible(1) /\ Feasible(2))
             /\ hcalls[i].case = 1 => Feasible(1)
       /\ \A i \in X \cup E :
             \E j \in B : j < i /\ hcalls[j].case = hcalls[i].case
       /\ (hpc \in {"analyse", "done"} /\ hexc = "none" /\ Feasible(1)) =>
             \E i \in B : hcalls[i].case = 1

C29_Witness ==
    /\ hpc = "done" /\ Feasible(1) /\ Feasible(2)
    /\ Len(hcalls) = 3
    /\ \A i \in 1..3 : hcalls[i].case = 1
    /\ Xdest # <<>> /\ eta_ex # <<>>

====
